---- MODULE Spec2Model ----
(***************************************************************************)
(* A model of the resumable pipeline of the CWCki timeline generator.      *)
(*                                                                         *)
(*   Spec          CWCkiAnalyzer.generate_timeline (analyzer.py): the      *)
(*                 batch loop, its checkpoint file, the retry loop of      *)
(*                 analyze_page_batch and the written timeline.json, over  *)
(*                 several runs that may be stopped between batches.       *)
(*   SpecFinalize  the three places that write media_index.json            *)
(*                 (scraper.py, extract_media.py, run.py).                 *)
(*                                                                         *)
(* Batch numbers: the code's loop variable batch_num is 0-based; the       *)
(* numbers it stores in failed_batches and prints are batch_num + 1.       *)
(* An event is modelled by the batch whose pages it came from and by the   *)
(* year of its date (0 stands for a date string that does not parse).      *)
(***************************************************************************)
EXTENDS Integers, Sequences, FiniteSets, TLC

\* ---------------------------------------------------------------- bounds
\* Number of batches the input pages split into (total_batches).
NumBatches == 7
\* Number of runs of generate_timeline that are followed.
MaxRuns == 2
\* Number of batches, over all runs, that the AI service answers badly
\* (an error, or a response that is not the expected JSON).
MaxFaults == 2
\* Page counts and image counts tried at the finalize sites.
MaxPages == 3
MaxImages == 2
MaxEventUnits == 5
MaxVersions == 2
MaxDiscoveryRuns == 2
max_pages == 3
checkpoint_interval == 2
MaxMedia == 3
MaxBatchPages == 3
MaxSmallShare == 3
MaxExcess == 40
MaxNameLength == 2
MaxUrls == 3
MaxScrapeRuns == 2
MaxFiles == 3
MaxExtractRuns == 2
\* checkpoint_interval of extract_all_media, 50 in the code, scaled to the
\* number of files of the model
extraction_checkpoint_interval == 2
MaxItems == 3

\* ------------------------------------------------------------- constants
\* analyzer.py: self.max_retries
max_retries == 5
\* analyzer.py: "Save checkpoint every 5 batches"
checkpoint_every == 5

Batches == 1..NumBatches

VARIABLES
    \* ----- generate_timeline
    pc,              \* "idle" (no run in progress), "loop", "done"
    dates,           \* input pages: the year of the event found in each batch
    checkpoint,      \* timeline_checkpoint.json
    timeline,        \* timeline.json
    all_events,      \* local list all_events
    failed_batches,  \* local list failed_batches
    start_batch,     \* local start_batch
    batch_num,       \* loop variable (0-based)
    retry_count,     \* analyze_page_batch's retry_count for the current batch
    \* ----- observation of the run (not program state)
    run,             \* number of runs started
    faults,          \* number of batches answered badly so far
    loaded,          \* the checkpoint as the current run loaded it
    first_processed, \* first batch (1-based) the current run processed, 0 if none
    last_outcome,    \* how the latest batch of the current run ended
    healed,          \* batches of the current run that succeeded after retries
    outcomes,        \* the outcomes of the batches of the current run so far
    failed_in_run1,  \* batches that failed in the first run
    ok_in_run2,      \* batches processed successfully in the second run
    prev_complete,   \* the previous run ran to its end with no failed batch
    \* ----- media_index.json and its finalize sites
    media_index,     \* media/media_index.json
    fin,             \* what the latest finalize did
    \* ----- one operation under a retry policy
    r_op,            \* "ai" (analyze_page_batch) or "http" (_make_request)
    r_pc,            \* "idle", "call" (an invocation is due), "done"
    r_retry_count,   \* the parameter retry_count of the pending invocation
    r_calls,         \* invocations of the wrapped operation so far
    r_delays,        \* the backoff delays slept so far, in order
    r_rate_sleeps,   \* sleeps of rate_limit_delay so far
    r_error,         \* the latest error the wrapped operation raised
    r_result,        \* what the operation handed to its caller
    \* ----- media linking (run.py's analysis step, link_media_to_events)
    l_timeline,      \* the events of timeline.json
    l_checkpoint,    \* media_linking_checkpoint.json
    l_output,        \* timeline_with_media.json
    l_skip,          \* what the latest analysis step of run.py decided
    \* ----- discover_all_pages
    d_pc,            \* "idle" (no run in progress), "loop", "done"
    to_visit,        \* local list to_visit, the frontier
    visited_urls,    \* self.visited_urls
    discovered_pages,        \* the keys of self.discovered_pages, in order
    pages_since_checkpoint,  \* local pages_since_checkpoint
    discovery_checkpoint,    \* discovery_checkpoint.json
    \* ----- observation of the discovery (not program state)
    d_max_pages,     \* the argument max_pages of the current run
    d_run,           \* number of discovery runs started
    d_loaded,        \* the kind of checkpoint document the run found
    d_last,          \* the latest thing the run did
    d_failed,        \* the urls whose fetch failed in the current run
    d_fetched,       \* the urls fetched since the last run that began
                     \* without a checkpoint it could load
    d_refetched,     \* the urls among them that were fetched again
    d_resumed_visited, \* the visited set of the checkpoint the run resumed
                     \* from
    \* ----- the deduplication of media records (link_media_to_events)
    m_stage,         \* "none", "once" (deduplicated), "twice"
    m_input,         \* the list of records given
    m_output,        \* the deduplicated list
    m_again,         \* the deduplicated list, deduplicated once more
    \* ----- the content of one page in the prompt (analyze_page_batch)
    a_stage,         \* "none" or "done"
    a_pages,         \* len(pages), the number of pages of the batch
    a_length,        \* len(page['content']) of the page
    a_content,       \* page_content as it is added to combined_content
    a_index,         \* the number of pages added to combined_content
    a_combined,      \* len(combined_content)
    \* ----- the three steps of run.py and the loops of their phases
    p_pc,            \* "scraping", "extraction", "timeline", "linking",
                     \* "summary", "worst_things", "done"
    p_item,          \* the index of the next item of the running loop
    p_scraped,       \* the urls of urls_to_scrape the loop has come to
    p_failed_pages,  \* failed, the urls recorded as failed
    p_extracted,     \* the files of remaining_files the loop has come to
    p_media_index,   \* the files with an entry in media_index
    p_batches,       \* the batches the loop of generate_timeline has come to
    p_failed_batches,\* failed_batches
    p_report,        \* what each phase has reported at its end
    p_console,       \* the messages on the console
    \* ----- the scraping loop of scrape_all_pages and its files
    s_pc,            \* "idle", "loop" or "done"
    s_run,           \* the number of runs started
    s_clean_text,    \* the stems of the files of clean_text/
    s_raw_json,      \* the stems of the files of raw_json/
    s_index_file,    \* media/media_index.json with its page entries
    s_existing,      \* existing_files, as read when the run began
    s_to_scrape,     \* urls_to_scrape, the part the loop has not come to
    s_selected,      \* the urls of urls_to_scrape
    s_fetched,       \* the urls given to get_page_content in the run
    s_counted,       \* the urls counted in 'successful'
    s_successful,    \* successful
    s_failed,        \* failed, the list of the urls that failed
    s_media_index,   \* media_index, the entries of the run
    s_downloaded,    \* downloaded_images
    \* ----- the loop of extract_all_media and its checkpoint
    e_pc,            \* "idle", "loop" or "done"
    e_run,           \* the number of runs started
    e_checkpoint,    \* media_extraction_checkpoint.json
    e_media_index,   \* media_index, the list of entries (one file each)
    e_processed_files, \* processed_files
    e_remaining,     \* remaining_files, the part the loop has not come to
    e_since,         \* pages_since_checkpoint
    e_attempted,     \* the files the loop of the run has come to
    e_failed,        \* the files that raised in the run
    e_failed_before  \* the files that raised in the run before

tvars == <<pc, dates, checkpoint, timeline, all_events, failed_batches,
           start_batch, batch_num, retry_count, run, faults, loaded,
           first_processed, last_outcome, healed, outcomes,
           failed_in_run1, ok_in_run2, prev_complete>>
fvars == <<media_index, fin>>
rvars == <<r_op, r_pc, r_retry_count, r_calls, r_delays, r_rate_sleeps,
           r_error, r_result>>
lvars == <<l_timeline, l_checkpoint, l_output, l_skip>>
dvars == <<d_pc, to_visit, visited_urls, discovered_pages,
           pages_since_checkpoint, discovery_checkpoint, d_max_pages,
           d_run, d_loaded, d_last, d_failed, d_fetched, d_refetched,
           d_resumed_visited>>
mvars == <<m_stage, m_input, m_output, m_again>>
avars == <<a_stage, a_pages, a_length, a_content, a_index, a_combined>>
pvars == <<p_pc, p_item, p_scraped, p_failed_pages, p_extracted, p_media_index,
           p_batches, p_failed_batches, p_report, p_console>>
svars == <<s_pc, s_run, s_clean_text, s_raw_json, s_index_file, s_existing,
           s_to_scrape, s_selected, s_fetched, s_counted, s_successful,
           s_failed, s_media_index, s_downloaded>>
evars == <<e_pc, e_run, e_checkpoint, e_media_index, e_processed_files,
           e_remaining, e_since, e_attempted, e_failed, e_failed_before>>
vars ==
    <<tvars, fvars, rvars, lvars, dvars, mvars, avars, pvars, svars, evars>>
outside_timeline == <<fvars, rvars, lvars, dvars, mvars, avars, pvars, svars, evars>>
outside_finalize == <<tvars, rvars, lvars, dvars, mvars, avars, pvars, svars, evars>>
outside_retry == <<tvars, fvars, lvars, dvars, mvars, avars, pvars, svars, evars>>
outside_linking == <<tvars, fvars, rvars, dvars, mvars, avars, pvars, svars, evars>>
outside_discovery == <<tvars, fvars, rvars, lvars, mvars, avars, pvars, svars, evars>>
outside_dedup == <<tvars, fvars, rvars, lvars, dvars, avars, pvars, svars, evars>>
outside_assembler == <<tvars, fvars, rvars, lvars, dvars, mvars, pvars, svars, evars>>
outside_pipeline ==
    <<tvars, fvars, rvars, lvars, dvars, mvars, avars, svars, evars>>
outside_scraping ==
    <<tvars, fvars, rvars, lvars, dvars, mvars, avars, pvars, evars>>
outside_extraction ==
    <<tvars, fvars, rvars, lvars, dvars, mvars, avars, pvars, svars>>

\* ------------------------------------------------------- list operations
\* x in lst
Contains(s, x) == \E i \in 1..Len(s) : s[i] = x

\* lst.remove(x): drops the first occurrence of x
RECURSIVE ListRemove(_, _)
ListRemove(s, x) ==
    IF s = <<>> THEN <<>>
    ELSE IF Head(s) = x THEN Tail(s)
    ELSE <<Head(s)>> \o ListRemove(Tail(s), x)

\* min(lst) of a non-empty list
ListMin(s) == CHOOSE m \in {s[i] : i \in 1..Len(s)} :
                 \A i \in 1..Len(s) : m <= s[i]

\* number of events of batch b in a list of events
CountOf(s, b) == Cardinality({i \in 1..Len(s) : s[i].batch = b})


\* ------------------------------------------------------------ the events
\* The events the AI extracts from the pages of batch b (1-based): one event.
EventsOf(b, d) == << [batch |-> b, date |-> d[b]] >>

\* parse_date_for_sort: the sort key of a date; unparseable dates go last
parse_date_for_sort(date) == IF date = 0 THEN 9999 ELSE date

\* one step of a stable sort: e goes behind every element whose key is <= its own
RECURSIVE InsertByDate(_, _)
InsertByDate(s, e) ==
    IF s = <<>> THEN <<e>>
    ELSE IF parse_date_for_sort(Head(s).date) <= parse_date_for_sort(e.date)
         THEN <<Head(s)>> \o InsertByDate(Tail(s), e)
         ELSE <<e>> \o s

RECURSIVE SortedPrefix(_, _)
SortedPrefix(s, n) ==
    IF n = 0 THEN <<>> ELSE InsertByDate(SortedPrefix(s, n - 1), s[n])

\* a mutant of SortEvents: the list is written as accumulated
SortEvents_Unsorted(s) == s

\* all_events.sort(key=...): Python's sort is stable
SortEvents(s) == SortedPrefix(s, Len(s))

\* ----------------------------------------------------- the two json files
NoCheckpoint == [exists |-> FALSE, events |-> <<>>, last_batch |-> 0,
                 failed_batches |-> <<>>]

\* json.dump(checkpoint_data, f)
CheckpointData(events, last, failed) ==
    [exists |-> TRUE, events |-> events, last_batch |-> last,
     failed_batches |-> failed]

NoTimeline == [exists |-> FALSE, total_events |-> 0, complete |-> FALSE,
               failed_batches |-> <<>>, events |-> <<>>]

\* a mutant of IsComplete: the run is always reported complete
IsComplete_Always(failed) == TRUE

\* 'complete': len(failed_batches) == 0
IsComplete(failed) == Len(failed) = 0

\* the document written to timeline.json
TimelineData(events, failed) ==
    [exists |-> TRUE, total_events |-> Len(events),
     complete |-> IsComplete(failed), failed_batches |-> failed,
     events |-> events]

\* ------------------------------------------------------------ the resume
\* a mutant of ResumeStart: always resume behind the last checkpointed batch
ResumeStart_LastBatch(ck) == IF ck.exists THEN ck.last_batch ELSE 0

\* start_batch as computed when the checkpoint is loaded
ResumeStart(ck) ==
    IF ~ck.exists THEN 0
    ELSE IF ck.failed_batches # <<>> THEN ListMin(ck.failed_batches) - 1
    ELSE ck.last_batch

\* ------------------------------------------------- the body of the loop
\* a mutant of FailedAfterSuccess: a successful retry leaves the list alone
FailedAfterSuccess_Keep(failed, b) == failed

\* if (batch_num + 1) in failed_batches: failed_batches.remove(batch_num + 1)
FailedAfterSuccess(failed, b) ==
    IF Contains(failed, b) THEN ListRemove(failed, b) ELSE failed

\* if (batch_num + 1) not in failed_batches: failed_batches.append(batch_num + 1)
FailedAfterFailure(failed, b) ==
    IF Contains(failed, b) THEN failed ELSE Append(failed, b)

\* if (batch_num + 1) % 5 == 0
CheckpointDue(b) == b % checkpoint_every = 0

\* is_retryable and retry_count < self.max_retries
ShouldRetry(retryable, count) == retryable /\ count < max_retries


\* ------------------------------------------------------ generate_timeline
\* the input pages: the year found in each batch, fixed over all runs
\* (one input has all years distinct and out of order, one has equal years
\* and a date that does not parse)
DateInputs ==
    { [b \in Batches |-> 2000 + ((b * 3) % (NumBatches + 1))],
      [b \in Batches |-> IF b % 3 = 0 THEN 0 ELSE 2000 + (b % 2)] }

\* kinds of text the AI can answer with:
\*   "events"  JSON object with an 'events' list
\*   "nokey"   JSON object without the key 'events'
\*   "invalid" not JSON (json.JSONDecodeError)
\*   "nondict" JSON that is no container, e.g. a number ('events' in 5 raises
\*             TypeError, which the outer handler catches)
ResponseKinds == {"events", "nokey", "invalid", "nondict"}

\* the observation of a batch that ended with the given outcome
Observe(outcome) ==
    /\ first_processed' = IF first_processed = 0 THEN batch_num + 1
                          ELSE first_processed
    /\ last_outcome' = outcome
    /\ healed' = IF outcome = "ok" /\ retry_count > 0
                 THEN healed \cup {batch_num + 1} ELSE healed
    /\ outcomes' = outcomes \cup {outcome}
    /\ failed_in_run1' =
         IF run = 1 /\ outcome \in {"aifail", "invalid", "nondict"}
         THEN failed_in_run1 \cup {batch_num + 1} ELSE failed_in_run1
    /\ ok_in_run2' = IF run = 2 /\ outcome = "ok"
                     THEN ok_in_run2 \cup {batch_num + 1} ELSE ok_in_run2
    /\ faults' = IF outcome # "ok" /\ retry_count = 0 THEN faults + 1
                 ELSE faults

\* a bad answer is within the budget of bad answers
FaultAllowed == retry_count > 0 \/ faults < MaxFaults

\* lines 184-224: load the checkpoint, set all_events, failed_batches and
\* start_batch, enter the loop
StartRun ==
    /\ pc \in {"idle", "done"}
    /\ run < MaxRuns
    /\ pc' = "loop"
    /\ run' = run + 1
    /\ loaded' = checkpoint
    /\ all_events' = IF checkpoint.exists THEN checkpoint.events ELSE <<>>
    /\ failed_batches' = IF checkpoint.exists THEN checkpoint.failed_batches
                         ELSE <<>>
    /\ start_batch' = ResumeStart(checkpoint)
    /\ batch_num' = ResumeStart(checkpoint)
    /\ retry_count' = 0
    /\ first_processed' = 0
    /\ last_outcome' = "none"
    /\ healed' = {}
    /\ outcomes' = {}
    /\ prev_complete' = (pc = "done" /\ failed_batches = <<>>)
    /\ UNCHANGED <<dates, checkpoint, timeline, faults, failed_in_run1,
                   ok_in_run2, outside_timeline>>

\* lines 273-287: the outer handler: record the failure, checkpoint at once
FailWithCheckpoint(outcome) ==
    /\ failed_batches' = FailedAfterFailure(failed_batches, batch_num + 1)
    /\ checkpoint' = CheckpointData(all_events, batch_num,
                        FailedAfterFailure(failed_batches, batch_num + 1))
    /\ batch_num' = batch_num + 1
    /\ retry_count' = 0
    /\ Observe(outcome)
    /\ UNCHANGED <<pc, dates, timeline, all_events, start_batch, run, loaded,
                   prev_complete, outside_timeline>>

\* lines 150-176: self.agent(prompt) raises; analyze_page_batch sleeps and
\* calls itself again, or raises to generate_timeline
AgentRaises(retryable) ==
    /\ pc = "loop"
    /\ batch_num < NumBatches
    /\ FaultAllowed
    /\ IF ShouldRetry(retryable, retry_count)
       THEN /\ retry_count' = retry_count + 1
            /\ faults' = IF retry_count = 0 THEN faults + 1 ELSE faults
            /\ UNCHANGED <<pc, dates, checkpoint, timeline, all_events,
                           failed_batches, start_batch, batch_num, run,
                           loaded, first_processed, last_outcome, healed,
                           outcomes, failed_in_run1, ok_in_run2,
                           prev_complete, outside_timeline>>
       ELSE FailWithCheckpoint("aifail")

\* lines 247-265: the response parsed and has events
BatchSucceeds ==
    LET b == batch_num + 1
        events == all_events \o EventsOf(b, dates)
        failed == FailedAfterSuccess(failed_batches, b)
    IN /\ all_events' = events
       /\ failed_batches' = failed
       /\ checkpoint' = IF CheckpointDue(b)
                        THEN CheckpointData(events, b, failed)
                        ELSE checkpoint
       /\ batch_num' = batch_num + 1
       /\ retry_count' = 0
       /\ Observe("ok")
       /\ UNCHANGED <<pc, dates, timeline, start_batch, run, loaded,
                      prev_complete, outside_timeline>>

\* lines 247-248: valid JSON without 'events': nothing is done
BatchHasNoEvents ==
    /\ batch_num' = batch_num + 1
    /\ retry_count' = 0
    /\ Observe("nokey")
    /\ UNCHANGED <<pc, dates, checkpoint, timeline, all_events,
                   failed_batches, start_batch, run, loaded, prev_complete,
                   outside_timeline>>

\* lines 267-271: json.JSONDecodeError: the batch is recorded as failed
BatchParseError ==
    /\ failed_batches' = FailedAfterFailure(failed_batches, batch_num + 1)
    /\ batch_num' = batch_num + 1
    /\ retry_count' = 0
    /\ Observe("invalid")
    /\ UNCHANGED <<pc, dates, checkpoint, timeline, all_events, start_batch,
                   run, loaded, prev_complete, outside_timeline>>

\* lines 237-289: self.agent(prompt) returns a text of the given kind
AgentReturns(kind) ==
    /\ pc = "loop"
    /\ batch_num < NumBatches
    /\ kind = "events" \/ FaultAllowed
    /\ CASE kind = "events"  -> BatchSucceeds
         [] kind = "nokey"   -> BatchHasNoEvents
         [] kind = "invalid" -> BatchParseError
         [] kind = "nondict" -> FailWithCheckpoint("nondict")

\* lines 291-329: the loop is over: sort, write timeline.json
Finish ==
    /\ pc = "loop"
    /\ batch_num >= NumBatches
    /\ pc' = "done"
    /\ all_events' = SortEvents(all_events)
    /\ timeline' = TimelineData(SortEvents(all_events), failed_batches)
    /\ UNCHANGED <<dates, checkpoint, failed_batches, start_batch, batch_num,
                   retry_count, run, faults, loaded, first_processed,
                   last_outcome, healed, outcomes, failed_in_run1,
                   ok_in_run2, prev_complete, outside_timeline>>

\* the process is stopped between two batches: what is in memory is gone,
\* the two files stay
StopRun ==
    /\ pc = "loop"
    /\ retry_count = 0
    /\ pc' = "idle"
    /\ all_events' = <<>>
    /\ failed_batches' = <<>>
    /\ start_batch' = 0
    /\ batch_num' = 0
    /\ first_processed' = 0
    /\ last_outcome' = "none"
    /\ healed' = {}
    /\ outcomes' = {}
    /\ UNCHANGED <<dates, checkpoint, timeline, retry_count, run, faults,
                   loaded, failed_in_run1, ok_in_run2, prev_complete,
                   outside_timeline>>

\* ------------------------------------------------------- media_index.json
\* The file is modelled by the keys the finalize sites read: the number of
\* entries of 'pages' and the two image counters. The scraper writes no
\* 'downloaded_images' key.
NoMediaIndex == [exists |-> FALSE]

\* data.get(key, 0) for the keys that are counters
GetCount(data, key) == IF key \in DOMAIN data THEN data[key] ELSE 0

\* len(data.get('pages', []))
PageCount(data) == GetCount(data, "pages")

\* what the latest finalize did: the site, the candidate's counts, the file
\* as it was before, whether the file was written, and what the caller got
\* ("new", "existing", "none" or, for the scraper, its "summary")
NoFinalize == [site |-> "none", cand_pages |-> 0, cand_images |-> 0,
               before |-> NoMediaIndex, wrote |-> FALSE, returned |-> "none"]

Finalized(site, pages, images, wrote, returned) ==
    /\ fin' = [site |-> site, cand_pages |-> pages, cand_images |-> images,
               before |-> media_index, wrote |-> wrote, returned |-> returned]
    /\ UNCHANGED outside_finalize

\* scraper.py lines 479-509: should_write_media_index
ScraperShouldWrite(existing, n_pages) ==
    IF n_pages > 0
    THEN ~(/\ existing.exists
           /\ PageCount(existing) >= n_pages
           /\ GetCount(existing, "total_images") > 0)
    ELSE ~existing.exists

\* scraper.py lines 477-520: the end of scrape_all_pages, which scraped
\* n_pages pages in this run and downloaded n_images of their images
ScraperFinalize(n_pages, n_images) ==
    /\ n_pages = 0 => n_images = 0
    /\ media_index' =
         IF ScraperShouldWrite(media_index, n_pages)
         THEN [exists |-> TRUE, pages |-> n_pages, total_images |-> n_images]
         ELSE media_index
    /\ Finalized("scraper", n_pages, n_images,
                 ScraperShouldWrite(media_index, n_pages), "summary")

\* extract_media.py lines 336-368: should_write (for new_pages > 0)
ExtractShouldWrite(current, new_pages) ==
    ~(/\ current.exists
      /\ \/ /\ PageCount(current) >= new_pages
            /\ GetCount(current, "downloaded_images") > 0
         \/ PageCount(current) > new_pages)

\* extract_media.py lines 322-407: the end of extract_all_media with
\* new_pages entries, total images found and new_images of them downloaded
ExtractFinalize(new_pages, total, new_images) ==
    /\ new_images <= total
    /\ new_pages = 0 => total = 0
    /\ IF new_pages > 0
       THEN IF ExtractShouldWrite(media_index, new_pages)
            THEN /\ media_index' =
                      [exists |-> TRUE, pages |-> new_pages,
                       total_images |-> total,
                       downloaded_images |-> new_images]
                 /\ Finalized("extract", new_pages, new_images, TRUE, "new")
            ELSE /\ media_index' = media_index
                 /\ Finalized("extract", new_pages, new_images, FALSE,
                              "existing")
       ELSE /\ media_index' = media_index
            /\ Finalized("extract", new_pages, new_images, FALSE,
                         IF media_index.exists THEN "existing" ELSE "none")

\* run.py lines 104-113: media_index.json already has complete data
MediaAlreadyExtracted(existing, expected) ==
    /\ existing.exists
    /\ PageCount(existing) = expected
    /\ PageCount(existing) > 0
    /\ GetCount(existing, "downloaded_images") > 0

\* run.py lines 143-174: should_finalize
RunShouldFinalize(current, checkpoint_pages) ==
    IF ~current.exists THEN TRUE
    ELSE IF /\ PageCount(current) >= checkpoint_pages
            /\ GetCount(current, "downloaded_images") > 0
         THEN FALSE
    ELSE PageCount(current) = 0 \/ GetCount(current, "downloaded_images") = 0

\* run.py lines 122-189: the extraction checkpoint holds an entry for each
\* of the expected raw page files; media_index.json is finalized from it
RunFinalize(expected, checkpoint_pages, images) ==
    /\ ~MediaAlreadyExtracted(media_index, expected)
    /\ expected > 0
    /\ checkpoint_pages = expected
    /\ media_index' =
         IF RunShouldFinalize(media_index, checkpoint_pages)
         THEN [exists |-> TRUE, pages |-> checkpoint_pages,
               total_images |-> images, downloaded_images |-> images]
         ELSE media_index
    /\ Finalized("run", checkpoint_pages, images,
                 RunShouldFinalize(media_index, checkpoint_pages), "none")

InitFinalize ==
    /\ media_index = NoMediaIndex
    /\ fin = NoFinalize

NextFinalize ==
    \/ \E p \in 0..MaxPages, i \in 0..MaxImages : ScraperFinalize(p, i)
    \/ \E p \in 0..MaxPages, t \in 0..MaxImages, i \in 0..MaxImages :
          ExtractFinalize(p, t, i)
    \/ \E e \in 0..MaxPages, p \in 0..MaxPages, i \in 0..MaxImages :
          RunFinalize(e, p, i)

\* ------------------------------------------------- the retry policies
\* analyze_page_batch (AI call) and _make_request (HTTP fetch) wrap one
\* operation each and call themselves again after a retryable error.

retry_delay == 3
scraper_max_retries == 3
scraper_retry_delay == 5

retryable_errors ==
    {"UnrecognizedClientException", "ExpiredTokenException",
     "ThrottlingException", "ServiceUnavailableException",
     "InternalServerError", "TimeoutError", "ConnectionError"}

retryable_status == {429, 500, 502, 503, 504}

NoError == [type |-> "none", msg |-> "", status |-> 0]

\* Errors of the AI call: an exception of a listed type, one whose type name
\* contains a listed name, one of an unlisted type, and botocore's
\* ClientError, whose message names the service's error code.
AiErrors ==
    {[type |-> t, msg |-> "", status |-> 0] :
        t \in retryable_errors \cup {"ReadTimeoutError", "ValueError"}}
    \cup {[type |-> "ClientError", msg |-> m, status |-> 0] :
        m \in {"ThrottlingException", "ExpiredTokenException",
               "ValidationException"}}

\* Errors of session.get / raise_for_status.
HttpErrors ==
    {[type |-> t, msg |-> "", status |-> 0] :
        t \in {"Timeout", "ConnectionError", "TooManyRedirects"}}
    \cup {[type |-> "HTTPError", msg |-> "", status |-> c] :
        c \in retryable_status \cup {403, 404}}

\* Python's  needle in haystack  on the names of the model.
StrIn(needle, haystack) ==
    \/ needle = haystack
    \/ needle = "TimeoutError" /\ haystack = "ReadTimeoutError"

is_retryable(e) ==
    \E err \in retryable_errors : StrIn(err, e.type) \/ StrIn(err, e.msg)

Backoff_Linear(base, k) == base * (k + 1)

Backoff(base, k) == base * (2 ^ k)

NoResult == [kind |-> "none", error |-> NoError, retries |-> 0]

\* raise Exception(f"Batch analysis failed after {self.max_retries}
\* retries: {error_type}: {error_msg}")
BatchAnalysisFailed(e) ==
    [kind |-> "exception", error |-> e, retries |-> max_retries]

\* return None
ReturnsNone == [kind |-> "None", error |-> NoError, retries |-> 0]

Returned == [kind |-> "value", error |-> NoError, retries |-> 0]

RetryBegin(op) ==
    /\ r_pc \in {"idle", "done"}
    /\ r_op' = op
    /\ r_pc' = "call"
    /\ r_retry_count' = 0
    /\ r_calls' = 0
    /\ r_delays' = <<>>
    /\ r_rate_sleeps' = 0
    /\ r_error' = NoError
    /\ r_result' = NoResult
    /\ UNCHANGED outside_retry

AiReturns ==
    /\ r_pc = "call"
    /\ r_op = "ai"
    /\ r_calls' = r_calls + 1
    /\ r_result' = Returned
    /\ r_pc' = "done"
    /\ UNCHANGED <<r_op, r_retry_count, r_delays, r_rate_sleeps, r_error,
                   outside_retry>>

AiRaises(e) ==
    /\ r_pc = "call"
    /\ r_op = "ai"
    /\ r_calls' = r_calls + 1
    /\ r_error' = e
    /\ IF ShouldRetry(is_retryable(e), r_retry_count)
          THEN /\ r_delays' = Append(r_delays,
                                     Backoff(retry_delay, r_retry_count))
               /\ r_retry_count' = r_retry_count + 1
               /\ UNCHANGED <<r_pc, r_result>>
          ELSE /\ r_result' = BatchAnalysisFailed(e)
               /\ r_pc' = "done"
               /\ UNCHANGED <<r_delays, r_retry_count>>
    /\ UNCHANGED <<r_op, r_rate_sleeps, outside_retry>>

\* _retry_request
RetryRequest ==
    IF r_retry_count < scraper_max_retries
       THEN /\ r_delays' = Append(r_delays,
                                  Backoff(scraper_retry_delay, r_retry_count))
            /\ r_retry_count' = r_retry_count + 1
            /\ UNCHANGED <<r_pc, r_result>>
       ELSE /\ r_result' = ReturnsNone
            /\ r_pc' = "done"
            /\ UNCHANGED <<r_delays, r_retry_count>>

HttpReturns ==
    /\ r_pc = "call"
    /\ r_op = "http"
    /\ r_rate_sleeps' = r_rate_sleeps + 1
    /\ r_calls' = r_calls + 1
    /\ r_result' = Returned
    /\ r_pc' = "done"
    /\ UNCHANGED <<r_op, r_retry_count, r_delays, r_error, outside_retry>>

HttpRaises(e) ==
    /\ r_pc = "call"
    /\ r_op = "http"
    /\ r_rate_sleeps' = r_rate_sleeps + 1
    /\ r_calls' = r_calls + 1
    /\ r_error' = e
    /\ IF e.type = "HTTPError" /\ e.status \notin retryable_status
          THEN /\ r_result' = ReturnsNone
               /\ r_pc' = "done"
               /\ UNCHANGED <<r_delays, r_retry_count>>
          ELSE RetryRequest
    /\ UNCHANGED <<r_op, outside_retry>>

InitRetry ==
    /\ r_op = "ai"
    /\ r_pc = "idle"
    /\ r_retry_count = 0
    /\ r_calls = 0
    /\ r_delays = <<>>
    /\ r_rate_sleeps = 0
    /\ r_error = NoError
    /\ r_result = NoResult

NextRetry ==
    \/ \E op \in {"ai", "http"} : RetryBegin(op)
    \/ AiReturns
    \/ \E e \in AiErrors : AiRaises(e)
    \/ HttpReturns
    \/ \E e \in HttpErrors : HttpRaises(e)

\* ------------------------------------------------------ media linking
\* The analysis step of run.py: generate_timeline writes timeline.json,
\* then link_media_to_events is called unless its completion marker says
\* the linking was done.  The step is atomic; a kill of the process during
\* link_media_to_events is the parameter killed_after.

link_checkpoint_interval == 100

\* The event counts of the model: multiples of half a checkpoint interval.
EventCounts == {50 * u : u \in 0..MaxEventUnits}

\* timeline.json as generate_timeline number version wrote it, n events
TimelineEvents(version, n) ==
    [i \in 1..n |-> [timeline |-> version, event |-> i]]

NoFile == [exists |-> FALSE, events |-> <<>>]

NoSkip == [decision |-> "none", checkpoint_events |-> 0,
           timeline_events |-> 0]

\* run.py lines 255-271: media_linking_complete
MediaLinkingComplete(output, ck) ==
    /\ output.exists
    /\ ck.exists
    /\ Len(ck.events) > 0

\* analyzer.py lines 646-654: events_with_media and start_idx as loaded
LoadedLinks(ck) == IF ck.exists THEN ck.events ELSE <<>>

\* analyzer.py lines 660-715: events_with_media after the loop has handled
\* n more events, starting at index start_idx
LinkedAfter(ck, events, n) ==
    LoadedLinks(ck)
        \o SubSeq(events, Len(LoadedLinks(ck)) + 1, Len(LoadedLinks(ck)) + n)

\* the events the loop has left to handle: range(start_idx, len(events))
LeftToLink(ck, events) ==
    IF Len(events) > Len(LoadedLinks(ck))
       THEN Len(events) - Len(LoadedLinks(ck))
       ELSE 0

\* analyzer.py lines 704-715: the checkpoint after the loop has handled n
\* events: written each time checkpoint_interval events have been handled
CheckpointAfter(ck, events, n) ==
    IF n >= link_checkpoint_interval
       THEN [exists |-> TRUE,
             events |-> LinkedAfter(ck, events,
                          (n \div link_checkpoint_interval)
                              * link_checkpoint_interval)]
       ELSE ck

\* run.py lines 248-271: the linking is taken as done and skipped
RunSkipsLinking(version, n) ==
    LET events == TimelineEvents(version, n)
    IN  /\ MediaLinkingComplete(l_output, l_checkpoint)
        /\ l_timeline' = events
        /\ l_skip' = [decision |-> "skipped",
                      checkpoint_events |-> Len(l_checkpoint.events),
                      timeline_events |-> n]
        /\ UNCHANGED <<l_checkpoint, l_output, outside_linking>>

\* run.py lines 273-285: no usable media index, nothing is linked
RunWithoutMedia(version, n) ==
    LET events == TimelineEvents(version, n)
    IN  /\ ~MediaLinkingComplete(l_output, l_checkpoint)
        /\ l_timeline' = events
        /\ l_skip' = [decision |-> "no_media",
                      checkpoint_events |-> Len(l_checkpoint.events),
                      timeline_events |-> n]
        /\ UNCHANGED <<l_checkpoint, l_output, outside_linking>>

\* run.py lines 273-279 and analyzer.py lines 604-735: link_media_to_events
\* runs to its end
RunLinksMedia(version, n) ==
    LET events == TimelineEvents(version, n)
        todo == LeftToLink(l_checkpoint, events)
    IN  /\ ~MediaLinkingComplete(l_output, l_checkpoint)
        /\ l_timeline' = events
        /\ l_checkpoint' = CheckpointAfter(l_checkpoint, events, todo)
        /\ l_output' = [exists |-> TRUE,
                        events |-> LinkedAfter(l_checkpoint, events, todo)]
        /\ l_skip' = [decision |-> "linked",
                      checkpoint_events |-> Len(l_checkpoint.events),
                      timeline_events |-> n]
        /\ UNCHANGED outside_linking

\* the same, the process being killed when the loop has handled
\* killed_after events: timeline_with_media.json is not written
RunLinkingKilled(version, n, killed_after) ==
    LET events == TimelineEvents(version, n)
    IN  /\ ~MediaLinkingComplete(l_output, l_checkpoint)
        /\ killed_after < LeftToLink(l_checkpoint, events)
        /\ l_timeline' = events
        /\ l_checkpoint' = CheckpointAfter(l_checkpoint, events, killed_after)
        /\ l_skip' = [decision |-> "killed",
                      checkpoint_events |-> Len(l_checkpoint.events),
                      timeline_events |-> n]
        /\ UNCHANGED <<l_output, outside_linking>>

InitLinking ==
    /\ l_timeline = <<>>
    /\ l_checkpoint = NoFile
    /\ l_output = NoFile
    /\ l_skip = NoSkip

NextLinking ==
    \/ \E v \in 1..MaxVersions, n \in EventCounts : RunSkipsLinking(v, n)
    \/ \E v \in 1..MaxVersions, n \in EventCounts : RunWithoutMedia(v, n)
    \/ \E v \in 1..MaxVersions, n \in EventCounts : RunLinksMedia(v, n)
    \/ \E v \in 1..MaxVersions, n \in EventCounts, k \in EventCounts :
          RunLinkingKilled(v, n, k)

\* -------------------------------------------------- discover_all_pages
\* The crawl of the wiki: a frontier queue, the visited set and the map of
\* discovered pages, with discovery_checkpoint.json.  max_pages and
\* checkpoint_interval are the arguments of discover_all_pages.

saved_queue_limit == 500

start_url == "cwcki"

\* The site: the links in the content of each page, in document order.
\* "Special:Random" is a link _is_valid_wiki_url rejects.
Urls == {start_url, "A", "B", "C", "D"}

Links ==
    [u \in Urls |->
        CASE u = start_url -> <<"A", "B", "A", "Special:Random", start_url>>
          [] u = "A" -> <<"B", "C", start_url>>
          [] u = "B" -> <<"A", "C">>
          [] u = "C" -> <<"D", "A">>
          [] OTHER -> <<>>]

is_valid_wiki_url(url) == url # "Special:Random"

\* what _make_request and the parse of its response give: None, a page
\* with no h1, or a page with a title; the content div is there in both
FetchOutcomes == {"none", "notitle", "page"}

Take(s, n) == SubSeq(s, 1, IF Len(s) < n THEN Len(s) ELSE n)

NoDiscoveryCheckpoint ==
    [kind |-> "none", discovered_pages |-> <<>>, visited_urls |-> {},
     to_visit_queue |-> <<>>]

\* _save_discovery_checkpoint
SavedDiscovery(discovered, visited, queue) ==
    [kind |-> "ok", discovered_pages |-> discovered,
     visited_urls |-> visited,
     to_visit_queue |-> Take(queue, saved_queue_limit)]

\* Documents _load_discovery_checkpoint cannot load: text that is not JSON,
\* and JSON that lacks the key 'visited_urls' or the key 'last_updated'.
CorruptKinds == {"invalid_json", "no_visited_urls", "no_last_updated"}

LoadDiscovery_NoVisited(ck) ==
    [discovered |-> ck.discovered_pages, visited |-> {},
     returned |-> ck.kind = "ok", queue |-> ck.to_visit_queue]

\* _load_discovery_checkpoint: the fields of the scraper and the returned
\* queue (returned = FALSE stands for None).  The assignments made before
\* the exception stay.
LoadDiscovery(ck) ==
    CASE ck.kind = "ok" ->
           [discovered |-> ck.discovered_pages, visited |-> ck.visited_urls,
            returned |-> TRUE, queue |-> ck.to_visit_queue]
      [] ck.kind = "no_last_updated" ->
           [discovered |-> ck.discovered_pages, visited |-> ck.visited_urls,
            returned |-> FALSE, queue |-> <<>>]
      [] ck.kind = "no_visited_urls" ->
           [discovered |-> ck.discovered_pages, visited |-> {},
            returned |-> FALSE, queue |-> <<>>]
      [] OTHER ->
           [discovered |-> <<>>, visited |-> {},
            returned |-> FALSE, queue |-> <<>>]

\* lines 149-156: the frontier a run starts with
InitialFrontier(found) ==
    IF ~found.returned THEN <<start_url>>
    ELSE IF found.queue = <<>> /\ found.discovered # <<>>
         THEN <<found.discovered[1]>>
    ELSE found.queue

LoopGuard_FrontierOnly(queue, discovered) == queue # <<>>

\* while to_visit and len(self.discovered_pages) < max_pages
LoopGuard(queue, discovered) ==
    queue # <<>> /\ Len(discovered) < d_max_pages

ShouldEnqueue_AnyValid(full_url, visited) == is_valid_wiki_url(full_url)

\* if self._is_valid_wiki_url(full_url) and full_url not in self.visited_urls
ShouldEnqueue(full_url, visited) ==
    is_valid_wiki_url(full_url) /\ full_url \notin visited

NewLinks(links, visited) ==
    SelectSeq(links, LAMBDA u : ShouldEnqueue(u, visited))

AppendLinks_AtHead(queue, links) == links \o queue

\* to_visit.append(full_url), link after link
AppendLinks(queue, links) == queue \o links

FrontierAfterSkip_Keep(queue) == queue

\* lines 162-165: url = to_visit.pop(0); if url in self.visited_urls: continue
FrontierAfterSkip(queue) == Tail(queue)

FrontierAfterFailure_Requeue(queue) == Append(Tail(queue), Head(queue))

\* lines 162 and 170-171: url = to_visit.pop(0); if not response: continue
FrontierAfterFailure(queue) == Tail(queue)

DiscoveryCheckpointDue_Never(since) == FALSE

\* lines 196-199: if pages_since_checkpoint >= checkpoint_interval
DiscoveryCheckpointDue(since) == since >= checkpoint_interval

\* the values of max_pages the runs are called with
PageCaps == {max_pages - 1, max_pages}

DiscoveredAfter_Always(discovered, url, outcome) ==
    IF ~Contains(discovered, url) THEN Append(discovered, url) ELSE discovered

\* lines 175-183: the page is added when it has a title and is not there yet
DiscoveredAfter(discovered, url, outcome) ==
    IF outcome = "page" /\ ~Contains(discovered, url)
       THEN Append(discovered, url)
       ELSE discovered

NoStep == [kind |-> "none", url |-> "", outcome |-> ""]

StartDiscovery(cap) ==
    LET found == LoadDiscovery(discovery_checkpoint)
    IN  /\ d_pc \in {"idle", "done"}
        /\ d_run < MaxDiscoveryRuns
        /\ d_run' = d_run + 1
        /\ d_max_pages' = cap
        /\ d_failed' = {}
        /\ d_pc' = "loop"
        /\ discovered_pages' = found.discovered
        /\ visited_urls' = found.visited
        /\ to_visit' = InitialFrontier(found)
        /\ pages_since_checkpoint' = 0
        /\ d_loaded' = discovery_checkpoint.kind
        /\ d_last' = [kind |-> "start", url |-> "", outcome |-> ""]
        /\ d_fetched' = IF found.returned THEN d_fetched ELSE {}
        /\ d_refetched' = IF found.returned THEN d_refetched ELSE {}
        /\ d_resumed_visited' = IF discovery_checkpoint.kind = "ok"
                                   THEN discovery_checkpoint.visited_urls
                                   ELSE {}
        /\ UNCHANGED <<discovery_checkpoint, outside_discovery>>

\* lines 162-165: the popped url was visited before
DiscoverSkip ==
    /\ d_pc = "loop"
    /\ LoopGuard(to_visit, discovered_pages)
    /\ Head(to_visit) \in visited_urls
    /\ to_visit' = FrontierAfterSkip(to_visit)
    /\ d_last' = [kind |-> "skip", url |-> Head(to_visit), outcome |-> ""]
    /\ UNCHANGED <<d_pc, visited_urls, discovered_pages,
                   pages_since_checkpoint, discovery_checkpoint, d_max_pages,
                   d_run, d_loaded, d_failed, d_fetched, d_refetched,
                   d_resumed_visited, outside_discovery>>

\* lines 162-199: one iteration that fetches the popped url
DiscoverFetch(outcome) ==
    LET url == Head(to_visit)
        visited == visited_urls \cup {url}
        discovered == DiscoveredAfter(discovered_pages, url, outcome)
        since == pages_since_checkpoint
                    + (Len(discovered) - Len(discovered_pages))
        queue == AppendLinks(Tail(to_visit), NewLinks(Links[url], visited))
    IN  /\ d_pc = "loop"
        /\ LoopGuard(to_visit, discovered_pages)
        /\ url \notin visited_urls
        /\ visited_urls' = visited
        /\ d_last' = [kind |-> "fetch", url |-> url, outcome |-> outcome]
        /\ d_fetched' = d_fetched \cup {url}
        /\ d_refetched' = IF url \in d_fetched THEN d_refetched \cup {url}
                                                ELSE d_refetched
        /\ IF outcome = "none"
              THEN /\ to_visit' = FrontierAfterFailure(to_visit)
                   /\ d_failed' = d_failed \cup {url}
                   /\ UNCHANGED <<discovered_pages, pages_since_checkpoint,
                                  discovery_checkpoint>>
              ELSE /\ discovered_pages' = discovered
                   /\ d_failed' = d_failed
                   /\ to_visit' = queue
                   /\ IF DiscoveryCheckpointDue(since)
                         THEN /\ discovery_checkpoint' =
                                   SavedDiscovery(discovered, visited, queue)
                              /\ pages_since_checkpoint' = 0
                         ELSE /\ pages_since_checkpoint' = since
                              /\ UNCHANGED discovery_checkpoint
        /\ UNCHANGED <<d_pc, d_max_pages, d_run, d_loaded, d_resumed_visited,
                       outside_discovery>>

\* lines 201-205: the loop is left, the final checkpoint is saved
DiscoverExit ==
    /\ d_pc = "loop"
    /\ ~LoopGuard(to_visit, discovered_pages)
    /\ discovery_checkpoint' =
          SavedDiscovery(discovered_pages, visited_urls, to_visit)
    /\ d_pc' = "done"
    /\ d_last' = [kind |-> "exit", url |-> "", outcome |-> ""]
    /\ UNCHANGED <<to_visit, visited_urls, discovered_pages,
                   pages_since_checkpoint, d_max_pages, d_run, d_loaded,
                   d_failed, d_fetched, d_refetched, d_resumed_visited,
                   outside_discovery>>

\* the process is killed inside the loop: what it held in memory is gone
StopDiscovery ==
    /\ d_pc = "loop"
    /\ d_pc' = "idle"
    /\ to_visit' = <<>>
    /\ visited_urls' = {}
    /\ discovered_pages' = <<>>
    /\ pages_since_checkpoint' = 0
    /\ d_last' = NoStep
    /\ d_failed' = {}
    /\ UNCHANGED <<discovery_checkpoint, d_max_pages, d_run, d_loaded,
                   d_fetched, d_refetched, d_resumed_visited,
                   outside_discovery>>

\* between two runs the checkpoint document is damaged
CorruptCheckpoint(kind) ==
    /\ d_pc \in {"idle", "done"}
    /\ discovery_checkpoint.kind = "ok"
    /\ discovery_checkpoint' = [discovery_checkpoint EXCEPT !.kind = kind]
    /\ UNCHANGED <<d_pc, to_visit, visited_urls, discovered_pages,
                   pages_since_checkpoint, d_max_pages, d_run, d_loaded,
                   d_last, d_failed, d_fetched, d_refetched,
                   d_resumed_visited, outside_discovery>>

InitDiscovery ==
    /\ d_pc = "idle"
    /\ to_visit = <<>>
    /\ visited_urls = {}
    /\ discovered_pages = <<>>
    /\ pages_since_checkpoint = 0
    /\ discovery_checkpoint = NoDiscoveryCheckpoint
    /\ d_run = 0
    /\ d_loaded = "none"
    /\ d_last = NoStep
    /\ d_failed = {}
    /\ d_max_pages = max_pages
    /\ d_fetched = {}
    /\ d_refetched = {}
    /\ d_resumed_visited = {}

NextDiscovery ==
    \/ \E cap \in PageCaps : StartDiscovery(cap)
    \/ DiscoverSkip
    \/ \E outcome \in FetchOutcomes : DiscoverFetch(outcome)
    \/ DiscoverExit
    \/ StopDiscovery
    \/ \E kind \in CorruptKinds : CorruptCheckpoint(kind)

\* ------------------------------------------ deduplication of media records
\* link_media_to_events drops the repeated images and videos of a page.  A
\* record is its 'url' and one more field; "" is an empty or missing url.

MediaUrls == {"", "u1", "u2"}

MediaRecords == [url : MediaUrls, alt : {"a", "b"}]

MediaLists == UNION {[1..n -> MediaRecords] : n \in 0..MaxMedia}

ShouldKeep_IgnoreSeen(url, seen) == url # ""

\* if img_url and img_url not in seen_urls
ShouldKeep(url, seen) == url # "" /\ url \notin seen

KeepRecord_AtFront(unique, img) == <<img>> \o unique

\* unique_images.append(img)
KeepRecord(unique, img) == Append(unique, img)

\* the loop over the records from index i on, with seen_urls and
\* unique_images as they are before it
RECURSIVE DedupFrom(_, _, _, _)
DedupFrom(records, i, seen, unique) ==
    IF i > Len(records) THEN unique
    ELSE IF ShouldKeep(records[i].url, seen)
         THEN DedupFrom(records, i + 1, seen \cup {records[i].url},
                        KeepRecord(unique, records[i]))
         ELSE DedupFrom(records, i + 1, seen, unique)

\* analyzer.py lines 676-684 (images) and 686-693 (videos)
Dedup(records) == DedupFrom(records, 1, {}, <<>>)

DedupOnce(records) ==
    /\ m_stage \in {"none", "once", "twice"}
    /\ m_stage' = "once"
    /\ m_input' = records
    /\ m_output' = Dedup(records)
    /\ m_again' = <<>>
    /\ UNCHANGED outside_dedup

DedupTwice ==
    /\ m_stage = "once"
    /\ m_stage' = "twice"
    /\ m_again' = Dedup(m_output)
    /\ UNCHANGED <<m_input, m_output, outside_dedup>>

InitDedup ==
    /\ m_stage = "none"
    /\ m_input = <<>>
    /\ m_output = <<>>
    /\ m_again = <<>>

NextDedup ==
    \/ \E records \in MediaLists : DedupOnce(records)
    \/ DedupTwice

\* -------------------------------------------- the content of a page in a batch
\* analyze_page_batch gives every page the same share of max_total_chars
\* and cuts the middle out of a content that is longer than the share.  The
\* content is the positions 1..length of its characters; a slice of it is
\* the pair of its first and last position (first > last: empty).

max_total_chars == 700000

\* len("\n\n[...middle section truncated...]\n\n")
marker_length == 36

\* the numbers of pages of the model: small batches, and batches so large
\* that the share of a page is a few characters
BatchSizes ==
    (1..MaxBatchPages) \cup {max_total_chars \div c : c \in 1..MaxSmallShare}

chars_per_page(n) == max_total_chars \div n

\* int(chars_per_page * 0.6): the product is a float, truncated; it equals
\* the integer quotient for every share up to max_total_chars
first_part(share) == (share * 6) \div 10

\* int(chars_per_page * 0.4)
last_part(share) == (share * 4) \div 10

SliceLength(slice) ==
    IF slice[1] > slice[2] THEN 0 ELSE slice[2] - slice[1] + 1

\* page_content[:k], for 0 <= k
HeadSlice(length, k) == <<1, IF k < length THEN k ELSE length>>

\* page_content[-k:], for 0 <= k: -0 is 0, the slice from the start
TailSlice(length, k) ==
    IF k = 0 \/ k >= length THEN <<1, length>> ELSE <<length - k + 1, length>>

ShouldTruncate_Never(length, share) == FALSE

\* if len(page_content) > chars_per_page
ShouldTruncate(length, share) == length > share

\* lines 79-87: page_content as it is added to combined_content
PageContent(length, share) ==
    IF ShouldTruncate(length, share)
       THEN LET head == HeadSlice(length, first_part(share))
                tail == TailSlice(length, last_part(share))
            IN  [truncated |-> TRUE, head |-> head, tail |-> tail,
                 length |-> SliceLength(head) + marker_length
                               + SliceLength(tail)]
       ELSE [truncated |-> FALSE, head |-> <<1, length>>, tail |-> <<1, 0>>,
             length |-> length]

NoContent == [truncated |-> FALSE, head |-> <<1, 0>>, tail |-> <<1, 0>>,
              length |-> 0]

\* the number of decimal digits of i >= 1, the length of str(i)
RECURSIVE Digits(_)
Digits(i) == IF i < 10 THEN 1 ELSE 1 + Digits(i \div 10)

\* len(f"\n\n{'='*80}\nPAGE {i}: {page['filename']}\n{'='*80}\n")
HeaderLength(i, name_length) ==
    2 + 80 + 1 + 5 + Digits(i) + 2 + name_length + 1 + 80 + 1

\* the lengths of page['filename'] of the model
NameLengths == 1..MaxNameLength

\* lines 71-73: a call of analyze_page_batch with len(pages) = n
StartBatch(n) ==
    /\ a_index = 0
    /\ a_stage' = "none"
    /\ a_pages' = n
    /\ a_index' = 0
    /\ a_combined' = 0
    /\ a_length' = 0
    /\ a_content' = NoContent
    /\ UNCHANGED outside_assembler

\* lines 75-87: one iteration of the loop over the pages; of a batch of
\* more than MaxBatchPages pages the first MaxBatchPages are followed
AssemblePage(length, name_length) ==
    /\ length >= 0
    /\ a_index < a_pages
    /\ a_index < MaxBatchPages
    /\ a_stage' = "done"
    /\ a_index' = a_index + 1
    /\ a_length' = length
    /\ a_content' = PageContent(length, chars_per_page(a_pages))
    /\ a_combined' = a_combined + HeaderLength(a_index + 1, name_length)
                         + PageContent(length, chars_per_page(a_pages)).length
    /\ UNCHANGED <<a_pages, outside_assembler>>

InitAssembler ==
    /\ a_stage = "none"
    /\ a_pages = 1
    /\ a_length = 0
    /\ a_content = NoContent
    /\ a_index = 0
    /\ a_combined = 0

NextAssembler ==
    \/ \E n \in BatchSizes : StartBatch(n)
    \/ \E excess \in (-1)..MaxExcess, name_length \in NameLengths :
          AssemblePage(chars_per_page(a_pages) + excess, name_length)

\* ---------------------------------------------- the three steps of run.py
\* main() of run.py runs scrape_all_pages, extract_all_media and the
\* analysis (generate_timeline, link_media_to_events, generate_summary,
\* generate_worst_things_list) one after the other.  Each of the first
\* three has a loop over its items (the urls to scrape, the raw_json files
\* left to process, the batches); the items are 1..MaxItems.

Items == 1..MaxItems

\* the outcomes of one page in scrape_all_pages: get_page_content returns a
\* content, returns None, or an exception is raised
ScrapeOutcomes == {"content", "none", "raises"}

\* the outcomes of one file in extract_all_media
ExtractOutcomes == {"indexed", "raises"}

\* the outcomes of one batch in generate_timeline
BatchOutcomes == {"events", "nokey", "parse_error", "raises"}

\* a line on the console: who wrote it, about which phase, what it says
Message(by, about, kind) == [by |-> by, about |-> about, kind |-> kind]

NoReport == [scraping_failed |-> -1, extracted_pages |-> -1,
             timeline_complete |-> "none"]

AfterFailure_Break(i) == MaxItems + 1

\* the except branch (or the else branch of 'if content') ends the
\* iteration; the for loop takes the next item
AfterFailure(i) == i + 1

\* scraper.py:415-475, one iteration of 'for url in urls_to_scrape'
ScrapePage(outcome) ==
    /\ p_pc = "scraping"
    /\ p_item \in Items
    /\ p_scraped' = p_scraped \cup {p_item}
    /\ IF outcome = "content"
          THEN /\ p_failed_pages' = p_failed_pages
               /\ p_item' = p_item + 1
          ELSE /\ p_failed_pages' = p_failed_pages \cup {p_item}
               /\ p_item' = AfterFailure(p_item)
    /\ UNCHANGED <<p_pc, p_extracted, p_media_index, p_batches,
                   p_failed_batches, p_report, p_console, outside_pipeline>>

\* scraper.py:526-545 (the summary returned) and run.py:67-75
ScrapingReturns ==
    /\ p_pc = "scraping"
    /\ p_item \notin Items
    /\ p_report' =
          [p_report EXCEPT !.scraping_failed = Cardinality(p_failed_pages)]
    /\ p_console' = p_console
          \cup {Message("run.py", "scraping", "completed")}
          \cup (IF Cardinality(p_failed_pages) > 0
                   THEN {Message("run.py", "scraping", "pages_failed")}
                   ELSE {})
    /\ p_pc' = "extraction"
    /\ p_item' = 1
    /\ UNCHANGED <<p_scraped, p_failed_pages, p_extracted, p_media_index,
                   p_batches, p_failed_batches, outside_pipeline>>

\* run.py:94-196: the media are found extracted; extract_all_media is not run
ExtractionSkipped ==
    /\ p_pc = "extraction"
    /\ p_item = 1
    /\ p_extracted = {}
    /\ p_console' = p_console
          \cup {Message("run.py", "extraction", "already_extracted")}
    /\ p_pc' = "timeline"
    /\ UNCHANGED <<p_item, p_scraped, p_failed_pages, p_extracted,
                   p_media_index, p_batches, p_failed_batches, p_report,
                   outside_pipeline>>

\* extract_media.py:246-316, one iteration of 'for json_file in
\* remaining_files'
ExtractPage(outcome) ==
    /\ p_pc = "extraction"
    /\ p_item \in Items
    /\ p_extracted' = p_extracted \cup {p_item}
    /\ IF outcome = "indexed"
          THEN /\ p_media_index' = p_media_index \cup {p_item}
               /\ p_item' = p_item + 1
          ELSE /\ p_media_index' = p_media_index
               /\ p_item' = AfterFailure(p_item)
    /\ UNCHANGED <<p_pc, p_scraped, p_failed_pages, p_batches,
                   p_failed_batches, p_report, p_console, outside_pipeline>>

\* extract_media.py:318-390 (the index returned) and run.py:198-211
ExtractionReturns ==
    /\ p_pc = "extraction"
    /\ p_item \notin Items
    /\ p_report' =
          [p_report EXCEPT !.extracted_pages = Cardinality(p_media_index)]
    /\ p_console' = p_console
          \cup {Message("run.py", "extraction",
                        IF Cardinality(p_media_index) = 0
                           THEN "no_pages" ELSE "completed")}
    /\ p_pc' = "timeline"
    /\ p_item' = 1
    /\ UNCHANGED <<p_scraped, p_failed_pages, p_extracted, p_media_index,
                   p_batches, p_failed_batches, outside_pipeline>>

\* analyzer.py:230-289, one iteration of the loop over the batches.  The
\* scraper module, imported first by run.py, has configured the root logger
\* with a console handler, so the records of the analyzer's logger are on
\* the console too.
AnalyzeBatch(outcome) ==
    /\ p_pc = "timeline"
    /\ p_item \in Items
    /\ p_batches' = p_batches \cup {p_item}
    /\ IF outcome \in {"events", "nokey"}
          THEN /\ p_failed_batches' =
                     IF outcome = "events" THEN p_failed_batches \ {p_item}
                                           ELSE p_failed_batches
               /\ p_console' = p_console
               /\ p_item' = p_item + 1
          ELSE /\ p_failed_batches' = p_failed_batches \cup {p_item}
               /\ p_console' = p_console
                     \cup {Message("analyzer", "timeline",
                                   IF outcome = "raises" THEN "batch_failed"
                                                         ELSE "parse_error")}
               /\ p_item' = AfterFailure(p_item)
    /\ UNCHANGED <<p_pc, p_scraped, p_failed_pages, p_extracted,
                   p_media_index, p_report, outside_pipeline>>

\* analyzer.py:306-340: the report, timeline.json with its 'complete' flag,
\* and the return of the events to run.py:245
TimelineReturns ==
    /\ p_pc = "timeline"
    /\ p_item \notin Items
    /\ p_report' =
          [p_report EXCEPT !.timeline_complete =
              IF p_failed_batches = {} THEN "true" ELSE "false"]
    /\ p_console' = p_console
          \cup {Message("analyzer", "timeline",
                        IF p_failed_batches = {} THEN "complete"
                                                 ELSE "incomplete")}
    /\ p_pc' = "linking"
    /\ p_item' = 1
    /\ UNCHANGED <<p_scraped, p_failed_pages, p_extracted, p_media_index,
                   p_batches, p_failed_batches, outside_pipeline>>

\* run.py:247-283: the media are linked to the events of timeline.json, or
\* the linking is skipped, with a line on the console
LinkingStep(kind) ==
    /\ p_pc = "linking"
    /\ p_console' = p_console \cup {Message("run.py", "linking", kind)}
    /\ p_pc' = "summary"
    /\ UNCHANGED <<p_item, p_scraped, p_failed_pages, p_extracted,
                   p_media_index, p_batches, p_failed_batches, p_report,
                   outside_pipeline>>

\* run.py:285-287
SummaryStep ==
    /\ p_pc = "summary"
    /\ p_console' = p_console \cup {Message("run.py", "summary", "generating")}
    /\ p_pc' = "worst_things"
    /\ UNCHANGED <<p_item, p_scraped, p_failed_pages, p_extracted,
                   p_media_index, p_batches, p_failed_batches, p_report,
                   outside_pipeline>>

\* run.py:289-293
WorstThingsStep ==
    /\ p_pc = "worst_things"
    /\ p_console' = p_console
          \cup {Message("run.py", "analysis", "completed")}
    /\ p_pc' = "done"
    /\ UNCHANGED <<p_item, p_scraped, p_failed_pages, p_extracted,
                   p_media_index, p_batches, p_failed_batches, p_report,
                   outside_pipeline>>

LinkingKinds == {"already_complete", "linking", "index_empty", "index_missing"}

InitPipeline ==
    /\ p_pc = "scraping"
    /\ p_item = 1
    /\ p_scraped = {}
    /\ p_failed_pages = {}
    /\ p_extracted = {}
    /\ p_media_index = {}
    /\ p_batches = {}
    /\ p_failed_batches = {}
    /\ p_report = NoReport
    /\ p_console = {}

NextPipeline ==
    \/ \E outcome \in ScrapeOutcomes : ScrapePage(outcome)
    \/ ScrapingReturns
    \/ ExtractionSkipped
    \/ \E outcome \in ExtractOutcomes : ExtractPage(outcome)
    \/ ExtractionReturns
    \/ \E outcome \in BatchOutcomes : AnalyzeBatch(outcome)
    \/ TimelineReturns
    \/ \E kind \in LinkingKinds : LinkingStep(kind)
    \/ SummaryStep
    \/ WorstThingsStep

\* ------------------------------------- the scraping loop and its files
\* scrape_all_pages scrapes the discovered pages that have no clean-text
\* file yet and writes media_index.json with the entries of the run.  The
\* discovery has found the urls 1..MaxUrls; a file is named after the title
\* of its page.

PageUrls == 1..MaxUrls

\* self.discovered_pages.get(url, url) made a file name: the last two urls
\* are two addresses of one title
safe_filename(url) == IF url = MaxUrls /\ url > 1 THEN url - 1 ELSE url

PageUrlList == [i \in PageUrls |-> i]

\* the outcomes of one url: a content with 0 or 1 image downloaded, no
\* content, an exception before the files are written, an exception
\* between the writing of the files and media_index.append
PageOutcomes ==
    {"content_0", "content_1", "none", "raises", "raises_after_write"}

ShouldScrape_Always(url, existing) == TRUE

\* if safe_filename not in existing_files
ShouldScrape(url, existing) == safe_filename(url) \notin existing

\* urls_to_scrape: the urls of the list that pass the filter, in order
RECURSIVE UrlsToScrape(_, _)
UrlsToScrape(urls, existing) ==
    IF urls = <<>> THEN <<>>
    ELSE IF ShouldScrape(Head(urls), existing)
         THEN <<Head(urls)>> \o UrlsToScrape(Tail(urls), existing)
         ELSE UrlsToScrape(Tail(urls), existing)

NoIndexFile == [exists |-> FALSE, entries |-> <<>>, total_images |-> 0]

\* the keys of media_index.json the safety check reads
IndexCounts(file) ==
    IF file.exists
       THEN [exists |-> TRUE, pages |-> Len(file.entries),
             total_images |-> file.total_images]
       ELSE NoMediaIndex

\* scraper.py:380-413: existing_files, urls_to_scrape, the counters
BeginScrape ==
    /\ s_pc \in {"idle", "done"}
    /\ s_run < MaxScrapeRuns
    /\ s_run' = s_run + 1
    /\ s_pc' = "loop"
    /\ s_existing' = s_clean_text
    /\ s_to_scrape' = UrlsToScrape(PageUrlList, s_clean_text)
    /\ s_selected' =
          LET list == UrlsToScrape(PageUrlList, s_clean_text)
          IN  {list[i] : i \in 1..Len(list)}
    /\ s_fetched' = {}
    /\ s_counted' = {}
    /\ s_successful' = 0
    /\ s_failed' = <<>>
    /\ s_media_index' = <<>>
    /\ s_downloaded' = 0
    /\ UNCHANGED <<s_clean_text, s_raw_json, s_index_file, outside_scraping>>

\* scraper.py:415-475: one iteration of the loop
ScrapeUrl(outcome) ==
    /\ s_pc = "loop"
    /\ s_to_scrape # <<>>
    /\ LET url == Head(s_to_scrape)
           written == outcome \in {"content_0", "content_1",
                                   "raises_after_write"}
           counted == outcome \in {"content_0", "content_1"}
       IN  /\ s_to_scrape' = Tail(s_to_scrape)
           /\ s_fetched' = s_fetched \cup {url}
           /\ s_raw_json' = IF written
                               THEN s_raw_json \cup {safe_filename(url)}
                               ELSE s_raw_json
           /\ s_clean_text' = IF written
                                 THEN s_clean_text \cup {safe_filename(url)}
                                 ELSE s_clean_text
           /\ s_media_index' = IF counted THEN Append(s_media_index, url)
                                          ELSE s_media_index
           /\ s_downloaded' = IF outcome = "content_1" THEN s_downloaded + 1
                                                       ELSE s_downloaded
           /\ s_successful' = IF counted THEN s_successful + 1
                                         ELSE s_successful
           /\ s_counted' = IF counted THEN s_counted \cup {url} ELSE s_counted
           /\ s_failed' = IF counted THEN s_failed ELSE Append(s_failed, url)
    /\ UNCHANGED <<s_pc, s_run, s_index_file, s_existing, s_selected,
                   outside_scraping>>

\* scraper.py:477-545: media_index.json is written or kept, the summary is
\* written and returned
EndScrape ==
    /\ s_pc = "loop"
    /\ s_to_scrape = <<>>
    /\ s_pc' = "done"
    /\ s_index_file' =
          IF ScraperShouldWrite(IndexCounts(s_index_file), Len(s_media_index))
             THEN [exists |-> TRUE, entries |-> s_media_index,
                   total_images |-> s_downloaded]
             ELSE s_index_file
    /\ UNCHANGED <<s_run, s_clean_text, s_raw_json, s_existing, s_to_scrape,
                   s_selected, s_fetched, s_counted, s_successful, s_failed,
                   s_media_index, s_downloaded, outside_scraping>>

\* the process is stopped between two pages: the files stay
StopScrape ==
    /\ s_pc = "loop"
    /\ s_pc' = "idle"
    /\ s_existing' = {}
    /\ s_to_scrape' = <<>>
    /\ s_selected' = {}
    /\ s_fetched' = {}
    /\ s_counted' = {}
    /\ s_successful' = 0
    /\ s_failed' = <<>>
    /\ s_media_index' = <<>>
    /\ s_downloaded' = 0
    /\ UNCHANGED <<s_run, s_clean_text, s_raw_json, s_index_file,
                   outside_scraping>>

InitScraping ==
    /\ s_pc = "idle"
    /\ s_run = 0
    /\ s_clean_text = {}
    /\ s_raw_json = {}
    /\ s_index_file = NoIndexFile
    /\ s_existing = {}
    /\ s_to_scrape = <<>>
    /\ s_selected = {}
    /\ s_fetched = {}
    /\ s_counted = {}
    /\ s_successful = 0
    /\ s_failed = <<>>
    /\ s_media_index = <<>>
    /\ s_downloaded = 0

NextScraping ==
    \/ BeginScrape
    \/ \E outcome \in PageOutcomes : ScrapeUrl(outcome)
    \/ EndScrape
    \/ StopScrape

\* ------------------------------- the loop of extract_all_media
\* extract_all_media takes the files of raw_json/ that the checkpoint does
\* not list as processed, adds an entry to media_index for each and saves
\* the checkpoint every extraction_checkpoint_interval processed files and
\* once more after the loop.  The files are 1..MaxFiles.

JsonFiles == [i \in 1..MaxFiles |-> i]

NoExtractionCheckpoint ==
    [exists |-> FALSE, media_index |-> <<>>, processed_files |-> {}]

\* _save_checkpoint
ExtractionCheckpoint(index, processed) ==
    [exists |-> TRUE, media_index |-> index, processed_files |-> processed]

RemainingFiles_All(files, processed) == files

\* remaining_files = [f for f in json_files if f.name not in processed_files]
RECURSIVE RemainingFiles(_, _)
RemainingFiles(files, processed) ==
    IF files = <<>> THEN <<>>
    ELSE IF Head(files) \notin processed
         THEN <<Head(files)>> \o RemainingFiles(Tail(files), processed)
         ELSE RemainingFiles(Tail(files), processed)

\* if pages_since_checkpoint >= checkpoint_interval
ExtractionCheckpointDue(since) == since >= extraction_checkpoint_interval

\* extract_media.py:191-238: the checkpoint is loaded, remaining_files
BeginExtract ==
    /\ e_pc \in {"idle", "done"}
    /\ e_run < MaxExtractRuns
    /\ e_run' = e_run + 1
    /\ e_pc' = "loop"
    /\ e_media_index' = e_checkpoint.media_index
    /\ e_processed_files' = e_checkpoint.processed_files
    /\ e_remaining' = RemainingFiles(JsonFiles, e_checkpoint.processed_files)
    /\ e_since' = 0
    /\ e_attempted' = {}
    /\ e_failed' = {}
    /\ e_failed_before' = e_failed
    /\ UNCHANGED <<e_checkpoint, outside_extraction>>

\* extract_media.py:246-314: one iteration of the loop
ExtractFile(outcome) ==
    /\ e_pc = "loop"
    /\ e_remaining # <<>>
    /\ LET file == Head(e_remaining)
           index == Append(e_media_index, file)
           processed == e_processed_files \cup {file}
       IN  /\ e_remaining' = Tail(e_remaining)
           /\ e_attempted' = e_attempted \cup {file}
           /\ IF outcome = "indexed"
                 THEN /\ e_media_index' = index
                      /\ e_processed_files' = processed
                      /\ IF ExtractionCheckpointDue(e_since + 1)
                            THEN /\ e_checkpoint' =
                                       ExtractionCheckpoint(index, processed)
                                 /\ e_since' = 0
                            ELSE /\ e_checkpoint' = e_checkpoint
                                 /\ e_since' = e_since + 1
                      /\ e_failed' = e_failed
                 ELSE /\ e_failed' = e_failed \cup {file}
                      /\ UNCHANGED <<e_media_index, e_processed_files,
                                     e_checkpoint, e_since>>
    /\ UNCHANGED <<e_pc, e_run, e_failed_before, outside_extraction>>

\* extract_media.py:316-318: the final save of the checkpoint
EndExtract ==
    /\ e_pc = "loop"
    /\ e_remaining = <<>>
    /\ e_pc' = "done"
    /\ e_checkpoint' = ExtractionCheckpoint(e_media_index, e_processed_files)
    /\ UNCHANGED <<e_run, e_media_index, e_processed_files, e_remaining,
                   e_since, e_attempted, e_failed, e_failed_before,
                   outside_extraction>>

\* the process is stopped between two files: the checkpoint file stays
StopExtract ==
    /\ e_pc = "loop"
    /\ e_pc' = "idle"
    /\ e_media_index' = <<>>
    /\ e_processed_files' = {}
    /\ e_remaining' = <<>>
    /\ e_since' = 0
    /\ e_attempted' = {}
    /\ UNCHANGED <<e_run, e_checkpoint, e_failed, e_failed_before,
                   outside_extraction>>

InitExtraction ==
    /\ e_pc = "idle"
    /\ e_run = 0
    /\ e_checkpoint = NoExtractionCheckpoint
    /\ e_media_index = <<>>
    /\ e_processed_files = {}
    /\ e_remaining = <<>>
    /\ e_since = 0
    /\ e_attempted = {}
    /\ e_failed = {}
    /\ e_failed_before = {}

NextExtraction ==
    \/ BeginExtract
    \/ \E outcome \in ExtractOutcomes : ExtractFile(outcome)
    \/ EndExtract
    \/ StopExtract

InitTimeline ==
    /\ pc = "idle"
    /\ dates \in DateInputs
    /\ checkpoint = NoCheckpoint
    /\ timeline = NoTimeline
    /\ all_events = <<>>
    /\ failed_batches = <<>>
    /\ start_batch = 0
    /\ batch_num = 0
    /\ retry_count = 0
    /\ run = 0
    /\ faults = 0
    /\ loaded = NoCheckpoint
    /\ first_processed = 0
    /\ last_outcome = "none"
    /\ healed = {}
    /\ outcomes = {}
    /\ failed_in_run1 = {}
    /\ ok_in_run2 = {}
    /\ prev_complete = FALSE

Init ==
    /\ InitTimeline
    /\ InitFinalize
    /\ InitRetry
    /\ InitLinking
    /\ InitDiscovery
    /\ InitDedup
    /\ InitAssembler
    /\ InitPipeline
    /\ InitScraping
    /\ InitExtraction

Next ==
    \/ StartRun
    \/ \E retryable \in BOOLEAN : AgentRaises(retryable)
    \/ \E kind \in ResponseKinds : AgentReturns(kind)
    \/ Finish
    \/ StopRun

Spec == Init /\ [][Next]_vars

SpecFinalize == Init /\ [][NextFinalize]_vars

SpecRetry == Init /\ [][NextRetry]_vars

SpecLinking == Init /\ [][NextLinking]_vars

SpecDiscovery == Init /\ [][NextDiscovery]_vars

\* the loop of discover_all_pages runs on while the process lives: each
\* iteration ends, every fetch returning after its bounded retries
DiscoveryLoopStep ==
    \/ DiscoverSkip
    \/ \E outcome \in FetchOutcomes : DiscoverFetch(outcome)
    \/ DiscoverExit

SpecDiscoveryLive ==
    Init /\ [][NextDiscovery]_vars /\ WF_vars(DiscoveryLoopStep)

SpecDedup == Init /\ [][NextDedup]_vars

SpecAssembler == Init /\ [][NextAssembler]_vars

SpecPipeline == Init /\ [][NextPipeline]_vars

SpecScraping == Init /\ [][NextScraping]_vars

SpecExtraction == Init /\ [][NextExtraction]_vars


\* ==================================================================
\* Properties of generate_timeline (checked under Spec)
\* ==================================================================
\* the run in progress (or just finished) started without a checkpoint
FreshRun == ~loaded.exists

\* every batch the run has processed so far succeeded
clean_run == outcomes \subseteq {"ok"}

\* the accumulated list holds the events of batches 1..n, in batch order
InBatchOrder(s, n) ==
    /\ Len(s) = n
    /\ \A i \in 1..n : s[i] = EventsOf(i, dates)[1]

\* s is ordered by date; events of equal date are in batch order
OrderedByDate(s) ==
    \A i, j \in 1..Len(s) :
        i < j =>
            \/ parse_date_for_sort(s[i].date) < parse_date_for_sort(s[j].date)
            \/ /\ parse_date_for_sort(s[i].date) = parse_date_for_sort(s[j].date)
               /\ s[i].batch < s[j].batch

\* C1: over any sequence of runs (stopped between batches, failed batches
\* retried by a later run) the accumulated events hold the events of every
\* batch at most once, and the events of the checkpoint are never missing
\* from the list of a run in progress.
C1_ExactlyOnce ==
    /\ \A b \in Batches : CountOf(all_events, b) <= 1
    /\ \A b \in Batches : CountOf(checkpoint.events, b) <= 1
    /\ pc = "loop" =>
         \A b \in Batches :
             CountOf(checkpoint.events, b) > 0 => CountOf(all_events, b) > 0

\* C4: a batch that failed in the first run and was processed successfully
\* in the second run is, from then on in the second run and in the
\* timeline.json it writes, absent from failed_batches, and its events are
\* in the accumulated events exactly once.
C4_SelfHealing ==
    (run = 2 /\ pc \in {"loop", "done"}) =>
        \A b \in failed_in_run1 \cap ok_in_run2 :
            /\ ~Contains(failed_batches, b)
            /\ CountOf(all_events, b) = 1
            /\ pc = "done" =>
                 /\ ~Contains(timeline.failed_batches, b)
                 /\ CountOf(timeline.events, b) = 1

\* C4's case: the second run is over, it resumed from a checkpoint that
\* lists a batch as failed, and it processed that batch successfully.
C4_Witness ==
    /\ run = 2
    /\ pc = "done"
    /\ \E b \in failed_in_run1 \cap ok_in_run2 :
          Contains(loaded.failed_batches, b)

\* C5: a run that follows a run which went to its end with no failed batch
\* processes no batch, appends nothing to the events of the checkpoint and
\* leaves failed_batches empty.
C5_ResumeIdempotent ==
    (prev_complete /\ pc \in {"loop", "done"}) =>
        /\ first_processed = 0
        /\ Len(all_events) = Len(loaded.events)
        /\ failed_batches = <<>>

\* C6: when a batch has just failed (the AI call raised for good, or the
\* response did not parse), the checkpoint on disk lists the batch as
\* failed, holds the events accumulated so far, and its last_batch is
\* below the failed batch.
C6_FailureCheckpointed ==
    (pc = "loop" /\ last_outcome \in {"aifail", "invalid", "nondict"}) =>
        /\ checkpoint.exists
        /\ Contains(checkpoint.failed_batches, batch_num)
        /\ checkpoint.last_batch < batch_num
        /\ checkpoint.events = all_events

\* the batches whose events are in memory and not in the checkpoint file
LostWork == Len(all_events) - Len(checkpoint.events)

\* C7: at every point of a run whose batches so far succeeded, raised or
\* failed to parse, at most 5 successfully processed batches are not in
\* the persisted checkpoint.
C7_BoundedLostWork ==
    (pc = "loop" /\ outcomes \subseteq {"ok", "aifail", "invalid"}) =>
        LostWork <= checkpoint_every

\* C8: a run that loaded a checkpoint with a non-empty failed list processes
\* the earliest failed batch first, whatever last_batch is, and no batch
\* before it.
C8_ResumeAtEarliestFailed ==
    (pc \in {"loop", "done"} /\ loaded.exists
        /\ loaded.failed_batches # <<>>) =>
        /\ batch_num + 1 >= ListMin(loaded.failed_batches)
        /\ first_processed # 0 =>
             first_processed = ListMin(loaded.failed_batches)

\* C8's case: the loaded checkpoint lists a failed batch and its last_batch
\* lies behind that batch; the run has processed a batch.
C8_Witness ==
    /\ pc = "loop"
    /\ loaded.exists
    /\ loaded.failed_batches # <<>>
    /\ loaded.last_batch > ListMin(loaded.failed_batches)
    /\ first_processed # 0

\* C9 as claimed: in a run from scratch in which every batch succeeded, one
\* of them after retries, failed_batches is empty and timeline.json holds
\* the events of all batches in batch order.
C9_OriginalBatchOrder ==
    (pc = "done" /\ FreshRun /\ clean_run /\ healed # {}) =>
        /\ failed_batches = <<>>
        /\ InBatchOrder(timeline.events, NumBatches)

\* C9 amended: a batch that succeeded after retries is not in
\* failed_batches; in a run from scratch in which every batch succeeded,
\* the accumulated events are in batch order while the loop runs, and
\* timeline.json holds the events of every batch once, ordered by date
\* (unparseable dates last, equal dates in batch order).
C9_HealedThenSortedByDate ==
    /\ pc \in {"loop", "done"} =>
         \A b \in healed : ~Contains(failed_batches, b)
    /\ (pc = "loop" /\ FreshRun /\ clean_run) =>
         /\ failed_batches = <<>>
         /\ InBatchOrder(all_events, batch_num)
    /\ (pc = "done" /\ FreshRun /\ clean_run) =>
         /\ failed_batches = <<>>
         /\ timeline.complete
         /\ Len(timeline.events) = NumBatches
         /\ \A b \in Batches : CountOf(timeline.events, b) = 1
         /\ OrderedByDate(timeline.events)

\* C9's case: a run from scratch is over, every batch succeeded, one of
\* them after retries, and the dates are not in batch order.
C9_Witness ==
    /\ pc = "done"
    /\ FreshRun
    /\ clean_run
    /\ healed # {}
    /\ ~InBatchOrder(timeline.events, NumBatches)

\* C10: the written timeline.json says complete exactly when failed_batches
\* is empty after the last batch, and it lists the failed batches.
C10_CompleteIffNoFailure ==
    pc = "done" =>
        /\ timeline.exists
        /\ timeline.complete <=> (failed_batches = <<>>)
        /\ timeline.failed_batches = failed_batches

\* C10's case: a run ended with failed batches and wrote a partial timeline.
C10_Witness ==
    /\ pc = "done"
    /\ failed_batches # <<>>
    /\ ~timeline.complete


\* C11: in every persisted checkpoint, every batch up to last_batch has
\* fully succeeded, that is, its events are among the checkpoint's events:
\* last_batch never lies beyond a batch that failed or was not successfully
\* processed.
C11_LastBatchOnlyPastSuccess ==
    checkpoint.exists =>
        \A b \in 1..checkpoint.last_batch :
            CountOf(checkpoint.events, b) >= 1

\* C12: a run that ends with fewer accumulated events than the existing
\* timeline.json holds leaves timeline.json as it is.
C12_TimelineNeverRegresses ==
    [][(/\ pc = "loop"
        /\ pc' = "done"
        /\ timeline.exists
        /\ Len(all_events) < Len(timeline.events)) => timeline' = timeline]_vars

\* ==================================================================
\* Properties of the finalize sites (checked under SpecFinalize)
\* ==================================================================
\* the image count of the existing file as the site reads it: the scraper
\* reads 'total_images', the other two read 'downloaded_images'
ExistingImages(site, existing) ==
    IF site = "scraper" THEN GetCount(existing, "total_images")
    ELSE GetCount(existing, "downloaded_images")

\* C2: a finalize over an existing media_index.json writes the candidate
\* exactly when the candidate has at least as many pages and at least as
\* many images as the existing file; otherwise the file is unchanged.
C2_MonotonicFinalize ==
    (fin.site # "none" /\ fin.before.exists) =>
        /\ fin.wrote <=>
              /\ fin.cand_pages >= PageCount(fin.before)
              /\ fin.cand_images >= ExistingImages(fin.site, fin.before)
        /\ ~fin.wrote => media_index = fin.before

\* C3: a candidate with fewer pages than the existing media_index.json is
\* rejected at every site, whatever the image counts are, and the file is
\* unchanged.
C3_FewerPagesRejected ==
    (/\ fin.site # "none"
     /\ fin.before.exists
     /\ fin.cand_pages < PageCount(fin.before)) =>
        /\ ~fin.wrote
        /\ media_index = fin.before
        /\ fin.returned # "new"


\* ==================================================================
\* Properties of the retry policies (checked under SpecRetry)

\* The spec's category of an error of the AI call: botocore's ClientError
\* carries the service's error code in its message, a read timeout is a
\* timeout, any other error is named by its type.
Category(e) ==
    IF e.type = "ClientError" THEN e.msg
    ELSE IF e.type = "ReadTimeoutError" THEN "TimeoutError"
    ELSE e.type

OnAllowList(op, e) ==
    IF op = "ai"
       THEN Category(e) \in retryable_errors
       ELSE \/ e.type \in {"Timeout", "ConnectionError"}
            \/ e.type = "HTTPError" /\ e.status \in {429, 500, 502, 503, 504}

failed_for_good == r_pc = "done" /\ r_result.kind # "value"

\* The wrapped operation is re-invoked at most max_retries times.
RetryBounded ==
    LET limit == IF r_op = "ai" THEN 5 ELSE scraper_max_retries
    IN  /\ r_calls <= 1 + limit
        /\ r_retry_count <= limit
        /\ (r_calls = 1 + limit /\ r_error # NoError /\ r_result # Returned)
              => failed_for_good

\* C13: the wrapped operation is re-invoked at most max_retries times, and
\* the fatal outcome (an exception for the AI call, None for the fetch)
\* carries the last error and the number of attempts actually made (the
\* retries made, or the invocations made).
C13_BoundedRetryReportsAttempts ==
    /\ RetryBounded
    /\ failed_for_good =>
          /\ r_result.kind = IF r_op = "ai" THEN "exception" ELSE "None"
          /\ r_result.error = r_error
          /\ r_result.retries \in {r_calls - 1, r_calls}

\* C14: an error whose category is not on the allow-list is never retried:
\* the failure is reported at once.
C14_FatalNeverRetried ==
    (r_error # NoError /\ ~OnAllowList(r_op, r_error)) => failed_for_good

C17_SkipOnlyWhenCheckpointComplete ==
    l_skip.decision = "skipped" =>
        l_skip.checkpoint_events = l_skip.timeline_events


\* ==================================================================
\* Properties of the discovery (checked under SpecDiscovery)

loop_step == d_pc = "loop" /\ d_pc' = "loop"

\* C16: a run that finds a checkpoint document it cannot load starts from
\* exactly the state of a fresh run: nothing visited, nothing discovered,
\* the frontier holding the start url.
C16_CorruptCheckpointStartsFresh ==
    (d_pc = "loop" /\ d_last.kind = "start" /\ d_loaded \in CorruptKinds) =>
        /\ visited_urls = {}
        /\ discovered_pages = <<>>
        /\ to_visit = <<start_url>>

\* C18 as stated: every identity in the frontier is absent from the
\* visited set.
C18_FrontierDisjointFromVisited ==
    d_pc = "loop" => \A i \in 1..Len(to_visit) : to_visit[i] \notin visited_urls

\* C18: a discovery step appends to the frontier only identities that are
\* absent from the visited set at that moment, behind the entries it keeps;
\* an entry that has been visited since it was enqueued is discarded when
\* it is popped, with no fetch.
C18_EnqueuedUnvisitedDiscardedOnPop ==
    [][loop_step =>
          LET kept == Tail(to_visit)
          IN  /\ Len(to_visit') >= Len(kept)
              /\ SubSeq(to_visit', 1, Len(kept)) = kept
              /\ \A i \in (Len(kept) + 1)..Len(to_visit') :
                    to_visit'[i] \notin visited_urls'
              /\ Head(to_visit) \in visited_urls =>
                    /\ to_visit' = kept
                    /\ d_last'.kind = "skip"
                    /\ visited_urls' = visited_urls]_vars

C18_Witness ==
    /\ d_pc = "loop"
    /\ d_last.kind = "skip"
    /\ \E i \in 1..Len(to_visit) : to_visit[i] \in visited_urls

\* C19 as stated: every identity in the visited set is in the discovered
\* map, also when its fetch failed or its page has no title.
C19_VisitedSubsetOfDiscovered ==
    d_pc = "loop" => \A u \in visited_urls : Contains(discovered_pages, u)

\* C19: an identity that a discovery step fetches enters the visited set;
\* it is in the discovered map after the step if the fetch gave a page with
\* a title, and the step leaves the discovered map as it was if the fetch
\* failed or the page has no title.
C19_VisitedDiscoveredIfTitled ==
    [][(loop_step /\ d_last'.kind = "fetch") =>
          /\ d_last'.url = Head(to_visit)
          /\ d_last'.url \in visited_urls'
          /\ d_last'.outcome = "page" =>
                Contains(discovered_pages', d_last'.url)
          /\ d_last'.outcome \in {"none", "notitle"} =>
                discovered_pages' = discovered_pages]_vars

C19_Witness ==
    /\ d_pc = "loop"
    /\ d_last.kind = "fetch"
    /\ d_last.outcome = "notitle"
    /\ d_last.url \in visited_urls
    /\ ~Contains(discovered_pages, d_last.url)
    /\ discovered_pages # <<>>

\* C20 as stated: the visited count never exceeds max_pages.
C20_VisitedWithinCap ==
    Cardinality(visited_urls) <= d_max_pages

\* C20: the loop takes a step only while the frontier is non-empty and the
\* discovered map holds fewer than max_pages pages, so the discovered map
\* never holds more than max_pages pages.
C20_StepsOnlyBelowDiscoveredCap ==
    [][loop_step =>
          /\ to_visit # <<>>
          /\ Len(discovered_pages) < d_max_pages
          /\ Len(discovered_pages') <= d_max_pages]_vars

C20_Witness ==
    /\ d_pc = "done"
    /\ Len(discovered_pages) = d_max_pages
    /\ to_visit # <<>>
    /\ Cardinality(visited_urls) > d_max_pages


\* the valid links of the page at the head of the frontier that are not
\* visited once the head is, in the order of the page
ExpectedLinks ==
    SelectSeq(Links[Head(to_visit)],
              LAMBDA u : /\ u # "Special:Random"
                         /\ u \notin visited_urls \cup {Head(to_visit)})

fetch_step == loop_step /\ d_last'.kind = "fetch"

\* C21: from a fresh frontier holding the seed, a step whose fetch gives a
\* title leaves Visited = {seed}, one discovered page and the seed's valid
\* links as the frontier, in the order of the page; in every step the head
\* is popped and the valid unvisited links are appended at the tail in
\* that order.
C21_FifoDiscoveryStep ==
    [][/\ (fetch_step /\ d_last'.outcome # "none") =>
             to_visit' = Tail(to_visit) \o ExpectedLinks
       /\ (loop_step /\ d_last'.kind = "skip") => to_visit' = Tail(to_visit)
       /\ (/\ fetch_step
           /\ d_last'.outcome = "page"
           /\ to_visit = <<start_url>>
           /\ visited_urls = {}
           /\ discovered_pages = <<>>) =>
             /\ visited_urls' = {start_url}
             /\ Len(discovered_pages') = 1
             /\ to_visit' = ExpectedLinks]_vars

C21_Witness ==
    /\ d_last = [kind |-> "fetch", url |-> start_url, outcome |-> "page"]
    /\ d_loaded = "none"
    /\ visited_urls = {start_url}
    /\ discovered_pages = <<start_url>>
    /\ to_visit = <<"A", "B", "A">>

\* C22: a step whose fetch fails only pops the identity: the discovered map
\* and the checkpoint stay as they are, the loop goes on, and no step of the
\* run appends an identity whose fetch has failed.
C22_DroppedOnFetchFailure ==
    [][loop_step =>
          /\ (d_last'.kind = "fetch" /\ d_last'.outcome = "none") =>
                /\ to_visit' = Tail(to_visit)
                /\ discovered_pages' = discovered_pages
                /\ discovery_checkpoint' = discovery_checkpoint
                /\ d_last'.url \in visited_urls'
          /\ \A i \in Len(to_visit)..Len(to_visit') :
                to_visit'[i] \notin d_failed']_vars

C22_Witness ==
    /\ d_pc = "loop"
    /\ d_last = [kind |-> "fetch", url |-> "B", outcome |-> "none"]
    /\ "B" \in d_failed
    /\ to_visit # <<>>
    /\ ~Contains(discovered_pages, "B")

\* the document a save writes in the state after the step
ExpectedCheckpoint ==
    [kind |-> "ok",
     discovered_pages |-> discovered_pages',
     visited_urls |-> visited_urls',
     to_visit_queue |->
        SubSeq(to_visit', 1,
               IF Len(to_visit') < 500 THEN Len(to_visit') ELSE 500)]

\* C23: the checkpoint {visited, discovered map, first 500 entries of the
\* frontier} is written in the step that brings the pages discovered since
\* the previous checkpoint to checkpoint_interval, in no other step of the
\* loop, and once more when the loop is left.
C23_CheckpointCadence ==
    [][/\ loop_step =>
             LET new == Len(discovered_pages') - Len(discovered_pages)
             IN  /\ discovery_checkpoint.kind \in {"ok", "none"} =>
                       Len(discovered_pages)
                           - Len(discovery_checkpoint.discovered_pages)
                         < checkpoint_interval
                 /\ IF pages_since_checkpoint + new >= checkpoint_interval
                       THEN /\ discovery_checkpoint' = ExpectedCheckpoint
                            /\ pages_since_checkpoint' = 0
                       ELSE discovery_checkpoint' = discovery_checkpoint
       /\ (d_pc = "loop" /\ d_pc' = "done") =>
             discovery_checkpoint' = ExpectedCheckpoint
       /\ Len(SavedDiscovery(<<>>, {}, [i \in 1..501 |-> "A"]).to_visit_queue)
             = 500]_vars

C23_Witness ==
    /\ d_pc = "loop"
    /\ d_run = 1
    /\ d_last.kind = "fetch"
    /\ pages_since_checkpoint = 0
    /\ Len(discovered_pages) = checkpoint_interval
    /\ discovery_checkpoint =
          [kind |-> "ok", discovered_pages |-> discovered_pages,
           visited_urls |-> visited_urls, to_visit_queue |-> to_visit]

\* C24: a run that resumes from a checkpoint with an empty frontier and a
\* non-empty discovered map seeds the frontier with a discovered identity
\* and then fetches it.
C24_ReseededIdentityIsFetched ==
    [][(/\ loop_step
        /\ d_last.kind = "start"
        /\ d_loaded = "ok"
        /\ discovery_checkpoint.to_visit_queue = <<>>
        /\ discovery_checkpoint.discovered_pages # <<>>) =>
            /\ Head(to_visit) = discovery_checkpoint.discovered_pages[1]
            /\ d_last'.kind = "fetch"]_vars

\* C25: discover_all_pages(max_pages = N) returns at most N pages, in a
\* fresh run and in a run that resumes from a checkpoint.
C25_ReturnsAtMostMaxPages ==
    d_pc = "done" => Len(discovered_pages) <= d_max_pages


\* ==================================================================
\* Properties of the deduplication (checked under SpecDedup)

\* the index of the first record of the list with the given url
FirstIndex(records, url) ==
    CHOOSE i \in 1..Len(records) :
        /\ records[i].url = url
        /\ \A j \in 1..(i - 1) : records[j].url # url

UrlsOf(records) == {records[i].url : i \in 1..Len(records)}

\* C28: deduplicating a deduplicated list changes nothing, and the records
\* of the deduplicated list are in the order of their first occurrences in
\* the list given.
C28_DedupIdempotent ==
    /\ m_stage = "twice" => m_again = m_output
    /\ m_stage # "none" =>
          \A a \in 1..Len(m_output) : \A b \in 1..Len(m_output) :
              a < b => FirstIndex(m_input, m_output[a].url)
                          < FirstIndex(m_input, m_output[b].url)

C28_Witness ==
    /\ m_stage = "twice"
    /\ Len(m_input) = 3
    /\ m_input[1].url = m_input[3].url
    /\ Len(m_output) = 2
    /\ m_again = m_output

C30_TruncationCorrect ==
    LET S == max_total_chars \div a_pages
        h == (6 * S) \div 10
        t == (4 * S) \div 10
    IN  (a_stage = "done" /\ a_length > S) =>
            /\ a_content.truncated
            /\ a_content.head = <<1, h>>
            /\ a_content.tail = <<a_length - t + 1, a_length>>
            /\ a_content.length = h + marker_length + t
            /\ a_content.length < a_length


\* ==================================================================
\* Properties of the steps of run.py (checked under SpecPipeline)

AfterScraping ==
    {"extraction", "timeline", "linking", "summary", "worst_things", "done"}

AfterTimeline == {"linking", "summary", "worst_things", "done"}

ExtractionRan == p_report.extracted_pages # -1

\* C26: a failure of a page or of a batch never stops the loop of its
\* phase: when the phase has ended, its loop has come to every item, and
\* what the phase reports at its end tells of the failures (the number of
\* failed pages, the number of pages indexed, the 'complete' flag).
C26_FailuresNeverAbortPhase ==
    /\ p_pc \in AfterScraping =>
          /\ p_scraped = Items
          /\ p_report.scraping_failed = Cardinality(p_failed_pages)
    /\ ExtractionRan =>
          /\ p_extracted = Items
          /\ p_report.extracted_pages = Cardinality(p_media_index)
    /\ p_pc \in AfterTimeline =>
          /\ p_batches = Items
          /\ (p_report.timeline_complete = "true") <=> (p_failed_batches = {})

C26_Witness ==
    /\ p_pc = "done"
    /\ 1 \in p_failed_pages
    /\ 1 \notin p_media_index
    /\ 1 \in p_failed_batches
    /\ p_scraped = Items
    /\ p_extracted = Items
    /\ p_batches = Items
    /\ p_report.timeline_complete = "false"

\* C27: when run.py is past the scraping and pages have failed, and when it
\* is past generate_timeline and batches have failed, run.py has told the
\* operator that it goes on with partial results.
C27_PartialResultsSurfaced ==
    /\ (p_pc \in AfterScraping /\ p_failed_pages # {}) =>
          Message("run.py", "scraping", "pages_failed") \in p_console
    /\ (p_pc \in AfterTimeline /\ p_failed_batches # {}) =>
          \E m \in p_console : m.by = "run.py" /\ m.about = "timeline"


\* C31: the text packed for a batch, the delimiters of the pages, the
\* contents and the truncation markers together, is never longer than
\* max_total_chars; as the text only grows, this is so after each page.
C31_HardBudget == a_combined <= max_total_chars


\* ==================================================================
\* Properties of the end of generate_timeline (checked under Spec)

EventSet(events) == {events[i] : i \in 1..Len(events)}

FailedSet(failed) == {failed[i] : i \in 1..Len(failed)}

\* C32: when generate_timeline has returned, the checkpoint on disk has
\* the failed batches of timeline.json and the events of timeline.json.
C32_CheckpointAgreesAtReturn ==
    pc = "done" =>
        /\ checkpoint.exists
        /\ FailedSet(checkpoint.failed_batches)
              = FailedSet(timeline.failed_batches)
        /\ EventSet(checkpoint.events) = EventSet(timeline.events)

\* C33: a timeline written with complete = true has the events of every
\* batch of the input.
C33_CompleteHasEveryBatch ==
    (pc = "done" /\ timeline.complete) =>
        \A b \in Batches : CountOf(timeline.events, b) >= 1


\* ==================================================================
\* Properties of the scraping loop (checked under SpecScraping)

EntriesOf(file) == {file.entries[i] : i \in 1..Len(file.entries)}

\* C34: no step takes a page entry out of media_index.json.
C34_NoEntryLost ==
    [][EntriesOf(s_index_file) \subseteq EntriesOf(s_index_file')]_vars

TimesFailed(url) == Cardinality({i \in 1..Len(s_failed) : s_failed[i] = url})

\* C39: a url whose clean-text file was there when the run began is not
\* fetched in the run; and when the run has ended, every url of
\* urls_to_scrape is either counted in 'successful', with its raw JSON and
\* clean text written, and not in 'failed', or is in 'failed' once and not
\* counted.
C39_ScrapeResume ==
    /\ \A url \in s_fetched : safe_filename(url) \notin s_existing
    /\ s_pc = "done" =>
          /\ s_successful = Cardinality(s_counted)
          /\ \A url \in s_selected :
                \/ /\ url \in s_counted
                   /\ safe_filename(url) \in s_raw_json
                   /\ safe_filename(url) \in s_clean_text
                   /\ TimesFailed(url) = 0
                \/ /\ url \notin s_counted
                   /\ TimesFailed(url) = 1

C39_Witness ==
    /\ s_pc = "done"
    /\ s_run = 2
    /\ s_existing = {1}
    /\ s_selected = PageUrls \ {1}
    /\ s_fetched = PageUrls \ {1}
    /\ s_successful = 1
    /\ Len(s_failed) = Cardinality(s_selected) - 1


\* ==================================================================
\* Properties of the output of the media linking (checked under SpecLinking)

\* C35: when link_media_to_events has returned, timeline_with_media.json
\* has one entry per event of the current timeline.json, in its order:
\* entry i is event i of the current timeline.
C35_OutputMatchesTimeline ==
    l_skip.decision = "linked" => l_output.events = l_timeline


\* ==================================================================
\* Properties of the extraction checkpoint (checked under SpecExtraction)

RemainingSet == {e_remaining[i] : i \in 1..Len(e_remaining)}

\* C36: the checkpoint on disk has exactly one entry of media_index for
\* each name of processed_files; a file that raised is not in
\* processed_files, and the run after the one in which it raised comes to
\* it again.
C36_OneEntryPerProcessedFile ==
    /\ \A file \in e_checkpoint.processed_files :
          Cardinality({i \in 1..Len(e_checkpoint.media_index) :
                          e_checkpoint.media_index[i] = file}) = 1
    /\ \A i \in 1..Len(e_checkpoint.media_index) :
          e_checkpoint.media_index[i] \in e_checkpoint.processed_files
    /\ \A file \in e_failed : file \notin e_checkpoint.processed_files
    /\ e_pc = "loop" =>
          \A file \in e_failed_before : file \in e_attempted \cup RemainingSet
    /\ e_pc = "done" => e_failed_before \subseteq e_attempted

C36_Witness ==
    /\ e_pc = "done"
    /\ e_run = 2
    /\ e_failed_before = {2}
    /\ e_failed = {}
    /\ e_checkpoint.media_index = <<1, 3, 2>>
    /\ e_checkpoint.processed_files = {1, 2, 3}


\* ==================================================================
\* Termination of the discovery (checked under SpecDiscoveryLive) and
\* repeated fetches (checked under SpecDiscovery)

\* C37: a run of discover_all_pages that is in its loop leaves it, and it
\* leaves it to its end only with the frontier empty or the cap reached,
\* saving the checkpoint with the state it ends with.
C37_DiscoveryTerminates ==
    /\ (d_pc = "loop") ~> (d_pc # "loop")
    /\ [][(d_pc = "loop" /\ d_pc' = "done") =>
             /\ to_visit = <<>> \/ Len(discovered_pages) >= d_max_pages
             /\ discovery_checkpoint' =
                   SavedDiscovery(discovered_pages, visited_urls, to_visit)
             /\ UNCHANGED <<to_visit, visited_urls, discovered_pages>>]_vars

C37_Witness ==
    /\ d_pc = "done"
    /\ d_loaded = "none"
    /\ Len(discovered_pages) = d_max_pages
    /\ to_visit # <<>>
    /\ discovery_checkpoint =
          SavedDiscovery(discovered_pages, visited_urls, to_visit)

\* C38 as stated: over a run and the runs resumed from its checkpoints no
\* url is fetched a second time.
C38_NoRepeatedFetch == d_refetched = {}

\* C38: a url is fetched only when it is not in the visited set, which
\* it enters with the fetch, and a run never fetches a url of the visited
\* set of the checkpoint it resumed from; a url fetched a second time was
\* visited after that checkpoint was saved.
C38_NoFetchOfVisited ==
    [][fetch_step =>
          /\ d_last'.url \notin visited_urls
          /\ d_last'.url \in visited_urls'
          /\ d_last'.url \notin d_resumed_visited]_vars

C38_Witness ==
    /\ d_pc = "loop"
    /\ d_loaded = "ok"
    /\ d_last.kind = "fetch"
    /\ d_last.url \in d_refetched
    /\ d_resumed_visited # {}
    /\ \E i \in 1..Len(to_visit) : to_visit[i] \in visited_urls

====
